---- MODULE Spec2Model ----
(***************************************************************************)
(* SentinelNet_FLS: configuration-drift auditor and L2/L3 topology watcher. *)
(*                                                                         *)
(* Three state machines share this module:                                 *)
(*   SpecTopo  - the topology_nodes table, the operator's authorize call   *)
(*               and run_topology_scan (collect, correlate, upsert,        *)
(*               detect VLAN drift, push incidents);                       *)
(*   SpecAudit - the baseline files and audit_device;                      *)
(*   SpecDiff  - DiffEngine.compare and classify_severity as functions of  *)
(*               a pair of DeviceConfig values.                            *)
(* Python's None is the string None for text fields and NullInt for        *)
(* integer fields (vlan_id is validated to 1..4094, so 0 is free).         *)
(* List indices in reports are Python's, counted from 0.                   *)
(***************************************************************************)
EXTENDS Integers, Sequences, FiniteSets, TLC

VARIABLES
    topology_nodes,   \* rows of table topology_nodes, in insertion order
    clock,            \* the wall clock read by _utcnow_iso
    incidents,        \* rows of table incidents, in insertion order
    incident_seq,     \* sqlite AUTOINCREMENT high-water mark of incidents.id
    lastOp,           \* the operation that produced this state, with its inputs
    baselines,        \* device -> content of baselines/<customer>/<device>.json
    auditResult,      \* the AuditResult returned by the last audit_device
    diffBaseline,     \* first argument of DiffEngine.compare
    diffCurrent,      \* second argument of DiffEngine.compare
    diffReport,       \* the DiffReport returned
    diffSeverity,     \* classify_severity of that report
    diffPc,           \* "input" before the call, "done" after it
    connected,        \* NetworkDeviceDriver.connected
    net_connect,      \* MikroTikDriver._net_connect: NullInt or the session held
    inWith,           \* control is inside a `with driver:` block
    deviceSessions,   \* the SSH sessions open on the device
    sessionSeq,       \* sessions opened so far
    sentCommands,     \* the commands sent to the device, in order
    inventory_devices, \* table inventory_devices: its rows
    pending_creates,  \* create_inventory_device calls between their SELECTs and their INSERT
    vault_records,    \* the (customer, device) pairs with a credential record in the vault
    ssePc,            \* where _sse_generator stands: "closed" before GET /health/stream
    sseBlocks,        \* the blocks the stream sent last, oldest first
    sseFirst,         \* the first block the stream sent
    sseRetries,       \* how many `retry:` blocks the stream sent (counted up to 2)
    sseInterval,      \* the interval the generator was created with
    vault_file        \* inventory/vault.enc: whether it exists and its bytes

topoVars  == <<topology_nodes, clock>>
storeVars == <<incidents, incident_seq>>
auditVars == <<baselines, auditResult>>
diffVars  == <<diffBaseline, diffCurrent, diffReport, diffSeverity, diffPc>>
driverVars == <<connected, net_connect, inWith, deviceSessions, sessionSeq, sentCommands>>
sseVars   == <<ssePc, sseBlocks, sseFirst, sseRetries, sseInterval>>
webVars   == <<pending_creates, vault_records, sseVars, vault_file>>
vars      == <<topoVars, storeVars, lastOp, auditVars, diffVars, driverVars, inventory_devices, webVars>>

None    == "None"
NullInt == 0

\* Bounds of the model.
MaxClock     == 2
MaxIncidents == 2

Max(a, b) == IF a >= b THEN a ELSE b
Min(a, b) == IF a <= b THEN a ELSE b

(***************************************************************************)
(* Incident store                                                          *)
(***************************************************************************)

\* A table whose id is a plain rowid: the next id follows the largest id
\* still in the table.
PushIncidentReusesIds(store, customer_id, device_id, severity, category, payload, fails) ==
    IF fails
    THEN [store |-> store, id |-> NullInt]
    ELSE LET ids   == {store.rows[i].id : i \in 1..Len(store.rows)}
             newId == IF ids = {} THEN 1 ELSE (CHOOSE x \in ids : \A y \in ids : y <= x) + 1
         IN  [store |-> [rows |-> Append(store.rows,
                                    [id          |-> newId,
                                     customer_id |-> customer_id,
                                     device_id   |-> device_id,
                                     severity    |-> severity,
                                     category    |-> category,
                                     payload     |-> payload,
                                     status      |-> "new"]),
                         seq  |-> Max(store.seq, newId)],
              id |-> newId]

\* IncidentEngine.push_incident: json.dumps, INSERT, lastrowid; an sqlite3.Error
\* or TypeError is swallowed and None (NullInt) is returned with no row added.
\* store is [rows, seq]; fails is the outcome of the INSERT.
PushIncident(store, customer_id, device_id, severity, category, payload, fails) ==
    IF fails
    THEN [store |-> store, id |-> NullInt]
    ELSE LET newId == store.seq + 1
         IN  [store |-> [rows |-> Append(store.rows,
                                    [id          |-> newId,
                                     customer_id |-> customer_id,
                                     device_id   |-> device_id,
                                     severity    |-> severity,
                                     category    |-> category,
                                     payload     |-> payload,
                                     status      |-> "new"]),
                         seq  |-> newId],
              id |-> newId]

(***************************************************************************)
(* Topology repository (table topology_nodes)                              *)
(***************************************************************************)

Customers == {"c1", "c2"}
Macs      == {"AA:BB:CC:00:11:22", "AA:BB:CC:00:11:33"}
Vlans     == {10, 20}

\* The row of (customer_id, mac_address), if any: UNIQUE(customer_id, mac_address).
NodeKeyMatches(row, customer_id, mac_address) ==
    row.customer_id = customer_id /\ row.mac_address = mac_address

\* COALESCE(excluded.x, topology_nodes.x)
Coalesce(new, old) == IF new # None THEN new ELSE old

\* The row a plain INSERT of the call's values creates (first_seen = last_seen = now).
\* n holds upsert_node's arguments: customer_id, device_id, mac_address, ip_address,
\* hostname, vlan_id, switch_port, vendor_oui, authorized.
InsertedNode(n, now) ==
    [customer_id |-> n.customer_id, device_id |-> n.device_id,
     mac_address |-> n.mac_address, ip_address |-> n.ip_address,
     hostname |-> n.hostname, vlan_id |-> n.vlan_id,
     switch_port |-> n.switch_port, vendor_oui |-> n.vendor_oui,
     first_seen |-> now, last_seen |-> now, authorized |-> n.authorized]

\* The DO UPDATE SET clause applied to the conflicting row.
UpdatedNode(row, n, now) ==
    [row EXCEPT !.device_id = n.device_id, !.ip_address = n.ip_address,
                !.hostname = Coalesce(n.hostname, @), !.vlan_id = n.vlan_id,
                !.switch_port = n.switch_port,
                !.vendor_oui = Coalesce(n.vendor_oui, @),
                !.last_seen = now,
                !.authorized = IF @ THEN TRUE ELSE n.authorized]

\* A mutant of UpsertNode: the stored flag is overwritten by the caller's.
UpsertNodeOverwritesAuthorized(rows, n, now) ==
    IF \E i \in DOMAIN rows : NodeKeyMatches(rows[i], n.customer_id, n.mac_address)
    THEN [i \in DOMAIN rows |->
            IF NodeKeyMatches(rows[i], n.customer_id, n.mac_address)
            THEN [UpdatedNode(rows[i], n, now) EXCEPT !.authorized = n.authorized]
            ELSE rows[i]]
    ELSE Append(rows, InsertedNode(n, now))

\* A mutant of UpsertNode: INSERT OR REPLACE, which stamps first_seen again.
UpsertNodeReplacesRow(rows, n, now) ==
    IF \E i \in DOMAIN rows : NodeKeyMatches(rows[i], n.customer_id, n.mac_address)
    THEN [i \in DOMAIN rows |->
            IF NodeKeyMatches(rows[i], n.customer_id, n.mac_address)
            THEN [UpdatedNode(rows[i], n, now) EXCEPT !.first_seen = now]
            ELSE rows[i]]
    ELSE Append(rows, InsertedNode(n, now))

\* upsert_node: INSERT ... ON CONFLICT(customer_id, mac_address) DO UPDATE SET ...
\* now is _utcnow_iso() read at the start of the call.
UpsertNode(rows, n, now) ==
    IF \E i \in DOMAIN rows : NodeKeyMatches(rows[i], n.customer_id, n.mac_address)
    THEN [i \in DOMAIN rows |->
            IF NodeKeyMatches(rows[i], n.customer_id, n.mac_address)
            THEN UpdatedNode(rows[i], n, now)
            ELSE rows[i]]
    ELSE Append(rows, InsertedNode(n, now))

\* set_node_authorized: UPDATE topology_nodes SET authorized = ? WHERE key matches.
SetNodeAuthorizedRows(rows, customer_id, mac_address, authorized) ==
    [i \in DOMAIN rows |->
        IF NodeKeyMatches(rows[i], customer_id, mac_address)
        THEN [rows[i] EXCEPT !.authorized = authorized]
        ELSE rows[i]]

\* get_authorized_vlan_map: MAC -> {vlan_id} over the customer's rows with
\* authorized = 1 AND vlan_id IS NOT NULL.
AuthorizedRows(rows, customer_id) ==
    {i \in DOMAIN rows : /\ rows[i].customer_id = customer_id
                         /\ rows[i].authorized
                         /\ rows[i].vlan_id # NullInt}

GetAuthorizedVlanMap(rows, customer_id) ==
    [m \in {rows[i].mac_address : i \in AuthorizedRows(rows, customer_id)} |->
        {rows[i].vlan_id : i \in {j \in AuthorizedRows(rows, customer_id) :
                                      rows[j].mac_address = m}}]

(***************************************************************************)
(* Topology service: correlation, VLAN-drift detection, the scan           *)
(***************************************************************************)

RECURSIVE SetToSeq(_)
\* Iteration over a Python set: some order, fixed for a given set.
SetToSeq(S) ==
    IF S = {} THEN <<>>
    ELSE LET x == CHOOSE y \in S : TRUE IN <<x>> \o SetToSeq(S \ {x})

RECURSIVE Sorted(_)
\* sorted(set_of_ints)
Sorted(S) ==
    IF S = {} THEN <<>>
    ELSE LET m == CHOOSE x \in S : \A y \in S : x <= y IN <<m>> \o Sorted(S \ {m})

MacsOf(entries) == {entries[i].mac_address : i \in DOMAIN entries}

\* index[entry.mac_address] = entry in list order: the last entry of a MAC wins.
LastEntryOf(entries, mac) ==
    entries[CHOOSE i \in DOMAIN entries :
                /\ entries[i].mac_address = mac
                /\ \A j \in DOMAIN entries : j > i => entries[j].mac_address # mac]

\* resolve_vendor_oui with no data/oui.txt present: every lookup is "unknown".
ResolveVendorOui(mac_address) == "unknown"

\* A correlation that takes the VLAN of the ARP entry first.
CorrelateNodeArpVlanFirst(arp_entries, mac_entries, mac) ==
    LET hasArp == mac \in MacsOf(arp_entries)
        hasMac == mac \in MacsOf(mac_entries)
        arp    == LastEntryOf(arp_entries, mac)
        mac_e  == LastEntryOf(mac_entries, mac)
    IN  [mac_address |-> mac,
         ip_address  |-> IF hasArp THEN arp.ip_address ELSE None,
         hostname    |-> None,
         vlan_id     |-> IF hasArp /\ arp.vlan_id # NullInt
                         THEN arp.vlan_id
                         ELSE IF hasMac THEN mac_e.vlan_id ELSE NullInt,
         switch_port |-> IF hasMac THEN mac_e.switch_port ELSE None,
         vendor_oui  |-> ResolveVendorOui(mac),
         authorized  |-> FALSE]

\* The NetworkNode built for one MAC in correlate_l2_l3.
CorrelateNode(arp_entries, mac_entries, mac) ==
    LET hasArp == mac \in MacsOf(arp_entries)
        hasMac == mac \in MacsOf(mac_entries)
        arp    == LastEntryOf(arp_entries, mac)
        mac_e  == LastEntryOf(mac_entries, mac)
    IN  [mac_address |-> mac,
         ip_address  |-> IF hasArp THEN arp.ip_address ELSE None,
         hostname    |-> None,
         vlan_id     |-> IF hasMac /\ mac_e.vlan_id # NullInt
                         THEN mac_e.vlan_id
                         ELSE IF hasArp THEN arp.vlan_id ELSE NullInt,
         switch_port |-> IF hasMac THEN mac_e.switch_port ELSE None,
         vendor_oui  |-> ResolveVendorOui(mac),
         authorized  |-> FALSE]

\* correlate_l2_l3
CorrelateL2L3(arp_entries, mac_entries) ==
    LET macs == SetToSeq(MacsOf(arp_entries) \cup MacsOf(mac_entries))
    IN  [i \in DOMAIN macs |-> CorrelateNode(arp_entries, mac_entries, macs[i])]

\* The test of detect_vlan_drift's loop body.
IsVlanDrift(authorized_map, node) ==
    /\ node.vlan_id # NullInt
    /\ node.mac_address \in DOMAIN authorized_map
    /\ node.vlan_id \notin authorized_map[node.mac_address]

\* The drift dict (its description text is left out).
DriftOf(authorized_map, node) ==
    [type           |-> "vlan_drift",
     mac_address    |-> node.mac_address,
     ip_address     |-> node.ip_address,
     expected_vlans |-> Sorted(authorized_map[node.mac_address]),
     found_vlan     |-> node.vlan_id,
     switch_port    |-> node.switch_port,
     severity       |-> "HIGH"]

RECURSIVE DriftsFrom(_, _, _)
DriftsFrom(authorized_map, nodes, i) ==
    IF i > Len(nodes) THEN <<>>
    ELSE (IF IsVlanDrift(authorized_map, nodes[i])
          THEN <<DriftOf(authorized_map, nodes[i])>> ELSE <<>>)
         \o DriftsFrom(authorized_map, nodes, i + 1)

\* detect_vlan_drift: reads the authorized map from the table as it is now.
DetectVlanDrift(rows, customer_id, current_nodes) ==
    DriftsFrom(GetAuthorizedVlanMap(rows, customer_id), current_nodes, 1)

RECURSIVE PushDriftIncidents(_, _, _, _, _, _)
\* _push_drift_incidents from drift i on: [store, count].
PushDriftIncidents(store, customer_id, device_id, drifts, i, fails) ==
    IF i > Len(drifts) THEN [store |-> store, count |-> 0]
    ELSE LET category == IF drifts[i].type = "vlan_drift"
                         THEN "vlan_drift" ELSE "unauthorized_node"
             pushed == PushIncident(store, customer_id, device_id, drifts[i].severity,
                                    category, drifts[i], fails)
             rest   == PushDriftIncidents(pushed.store, customer_id, device_id,
                                          drifts, i + 1, fails)
         IN  [store |-> rest.store,
              count |-> rest.count + (IF pushed.id # NullInt THEN 1 ELSE 0)]

RECURSIVE UpsertNodes(_, _, _, _, _)
\* The "for node in nodes: upsert_node(...)" loop of run_topology_scan from node i on.
UpsertNodes(rows, dev, nodes, i, now) ==
    IF i > Len(nodes) THEN rows
    ELSE UpsertNodes(
            UpsertNode(rows, [customer_id |-> dev.customer_id, device_id |-> dev.device_id,
                              mac_address |-> nodes[i].mac_address,
                              ip_address  |-> nodes[i].ip_address,
                              hostname    |-> nodes[i].hostname,
                              vlan_id     |-> nodes[i].vlan_id,
                              switch_port |-> nodes[i].switch_port,
                              vendor_oui  |-> nodes[i].vendor_oui,
                              authorized  |-> FALSE], now),
            dev, nodes, i + 1, now)

\* The active inventory rows, in inventory order (list_active_inventory_devices).
ActiveDevices ==
    << [customer_id |-> "c1", device_id |-> "d1", vendor |-> "mikrotik"],
       [customer_id |-> "c2", device_id |-> "d2", vendor |-> "mikrotik"],
       [customer_id |-> "c1", device_id |-> "d3", vendor |-> "cisco"] >>

\* devices = [d for d in devices if d.get("customer_id") == customer_filter]
FilterDevices(devices, customer_filter) ==
    IF customer_filter = None THEN devices
    ELSE SelectSeq(devices, LAMBDA d : d.customer_id = customer_filter)

\* ARP and bridge-host entries the devices can report.
ArpA   == [ip_address |-> "10.0.0.5", mac_address |-> "AA:BB:CC:00:11:22", interface |-> "bridge", vlan_id |-> NullInt]
MacA10 == [mac_address |-> "AA:BB:CC:00:11:22", interface |-> "ether3", vlan_id |-> 10, switch_port |-> "ether3", is_local |-> FALSE]
MacA20 == [mac_address |-> "AA:BB:CC:00:11:22", interface |-> "ether3", vlan_id |-> 20, switch_port |-> "ether3", is_local |-> FALSE]

\* What a collection from each device can return: {arp, mac, lldp}.
RawData(dev) ==
    IF dev.device_id = "d1"
    THEN { [arp |-> <<ArpA>>, mac |-> <<MacA10>>, lldp |-> <<>>],
           [arp |-> <<ArpA>>, mac |-> <<MacA20>>, lldp |-> <<>>] }
    ELSE IF dev.device_id = "d2"
    THEN { [arp |-> <<>>, mac |-> <<MacA20>>, lldp |-> <<>>] }
    ELSE { [arp |-> <<>>, mac |-> <<>>, lldp |-> <<>>] }

\* What the SNMP-only collection of a device can return (ARP rows carry no VLAN).
SnmpData(dev) ==
    IF dev.device_id = "d1"
    THEN { [arp |-> <<ArpA>>, mac |-> <<>>, lldp |-> <<>>] }
    ELSE { [arp |-> <<>>, mac |-> <<>>, lldp |-> <<>>] }

EmptyRaw == [arp |-> <<>>, mac |-> <<>>, lldp |-> <<>>]

\* What can happen to one device of a scan: the step that decides its path, the
\* SNMP community found for it (None: none) and the tables collected.
\* driver_error: the stored credentials lack a key the driver constructor
\* reads (KeyError); persist_error: sqlite3 raises while the collected tables
\* are written.
DeviceRuns(dev) ==
    IF dev.device_id = "d1"
    THEN {[step |-> s, community |-> None, raw |-> EmptyRaw] :
            s \in {"creds_error", "conn_error", "unexpected_error", "driver_error",
                   "persist_error"}}
         \cup {[step |-> "collected", community |-> None, raw |-> r] : r \in RawData(dev)}
         \cup {[step |-> "conn_error", community |-> "public", raw |-> r] : r \in SnmpData(dev)}
    ELSE IF dev.device_id = "d2"
    THEN {[step |-> "creds_error", community |-> None, raw |-> EmptyRaw]}
         \cup {[step |-> "collected", community |-> None, raw |-> r] : r \in RawData(dev)}
    ELSE {[step |-> "collected", community |-> None, raw |-> r] : r \in RawData(dev)}

NoRun == [step |-> "none", community |-> None, raw |-> EmptyRaw]

\* One iteration of run_topology_scan's device loop. st is the loop's state:
\* the table, the incident store, the three counters, and for the record the
\* number of drifts detected and the nodes seen so far.
\* The appends to topology_arp / topology_mac / topology_lldp are not kept: no
\* operation of the model reads them.
\* An exception no handler of the loop catches leaves run_topology_scan:
\* aborted is set and the loop ends.
ScanDevice(st, dev, inp, now, push_fails) ==
    IF inp.step = "creds_error" THEN st
    ELSE IF dev.vendor # "mikrotik" THEN st
    ELSE IF inp.step = "driver_error" THEN [st EXCEPT !.aborted = TRUE]
    ELSE IF inp.step = "conn_error" /\ inp.community = None THEN st
    ELSE IF inp.step = "unexpected_error" THEN st
    ELSE IF inp.step = "persist_error" THEN [st EXCEPT !.aborted = TRUE]
    ELSE LET nodes  == CorrelateL2L3(inp.raw.arp, inp.raw.mac)
             rows   == UpsertNodes(st.rows, dev, nodes, 1, now)
             drifts == DetectVlanDrift(rows, dev.customer_id, nodes)
             pushed == IF drifts # <<>>
                       THEN PushDriftIncidents(st.store, dev.customer_id, dev.device_id,
                                               drifts, 1, push_fails)
                       ELSE [store |-> st.store, count |-> 0]
         IN  [rows             |-> rows,
              store            |-> pushed.store,
              aborted          |-> FALSE,
              attempted        |-> st.attempted,
              devices_scanned  |-> st.devices_scanned + 1,
              nodes_discovered |-> st.nodes_discovered + Len(nodes),
              drifts           |-> st.drifts + pushed.count,
              detected         |-> st.detected + Len(drifts),
              observed         |-> st.observed \cup
                                   {[customer_id |-> dev.customer_id, node |-> nodes[i]] :
                                        i \in DOMAIN nodes}]

\* One pass of the device loop, the device noted as attempted.
ScanPass(st, dev, inp, now, push_fails) ==
    ScanDevice([st EXCEPT !.attempted = Append(@, dev.device_id)], dev, inp, now, push_fails)

RECURSIVE ScanDevices(_, _, _, _, _, _)
\* The device loop from device i on; it ends early when an exception leaves
\* the function.
ScanDevices(st, devices, inputs, i, now, push_fails) ==
    IF i > Len(devices) \/ st.aborted THEN st
    ELSE ScanDevices(ScanPass(st, devices[i], inputs[i], now, push_fails),
                     devices, inputs, i + 1, now, push_fails)

\* run_topology_scan: the loop's final state; nothing is touched when no device
\* is selected or the vault cannot be opened.
RunTopologyScanResult(rows, store, customer_filter, vault_ok, inputs, now, push_fails) ==
    LET devices == FilterDevices(ActiveDevices, customer_filter)
        start   == [rows |-> rows, store |-> store, aborted |-> FALSE, attempted |-> <<>>,
                    devices_scanned |-> 0,
                    nodes_discovered |-> 0, drifts |-> 0, detected |-> 0, observed |-> {}]
    IN  IF devices = <<>> \/ ~vault_ok THEN start
        ELSE ScanDevices(start, devices, inputs, 1, now, push_fails)

(***************************************************************************)
(* SpecTopo: the topology table under upserts, operator calls and scans    *)
(***************************************************************************)

\* The other two machines at rest.
AuditIdle ==
    /\ baselines = <<>>
    /\ auditResult = [op |-> "none"]

DiffIdle ==
    /\ diffBaseline = <<>>
    /\ diffCurrent = <<>>
    /\ diffReport = <<>>
    /\ diffSeverity = 0
    /\ diffPc = "idle"

\* The device ids list_inventory_devices returns at the start.
InventoryIds == {"d1", "d2", "d3"}

\* A row of inventory_devices.
InventoryRow(customer_id, device_id, vendor, host, port) == [customer_id |-> customer_id, device_id |-> device_id, vendor |-> vendor, host |-> host, port |-> port]

HostOf(device_id) ==
    CASE device_id = "d1" -> "10.0.0.1"
      [] device_id = "d2" -> "10.0.0.2"
      [] OTHER            -> "10.0.0.3"

\* The table at the start: one row per device of ActiveDevices.
InventoryRows == {InventoryRow(ActiveDevices[i].customer_id, ActiveDevices[i].device_id, ActiveDevices[i].vendor, HostOf(ActiveDevices[i].device_id), 22) : i \in 1..Len(ActiveDevices)}

\* {d["device_id"] for d in list_inventory_devices()}
DeviceIds(rows) == {row.device_id : row \in rows}

\* No vault.enc on disk.
NoVaultFile == [exists |-> FALSE, bytes |-> <<>>]

\* No create in flight; the vault holds a record for each inventory row.
WebIdle ==
    /\ pending_creates = <<>>
    /\ vault_records = {<<row.customer_id, row.device_id>> : row \in InventoryRows}
    /\ ssePc = "closed"
    /\ sseBlocks = <<>>
    /\ sseFirst = None
    /\ sseRetries = 0
    /\ sseInterval = NullInt
    /\ vault_file = NoVaultFile

\* A driver as __init__ leaves it, no session on the device.
DriverIdle ==
    /\ connected = FALSE
    /\ net_connect = NullInt
    /\ inWith = FALSE
    /\ deviceSessions = {}
    /\ sessionSeq = 0
    /\ sentCommands = <<>>

TopoInit ==
    /\ topology_nodes = <<>>
    /\ clock = 1
    /\ incidents = <<>>
    /\ incident_seq = 0
    /\ lastOp = [op |-> "init"]
    /\ AuditIdle
    /\ DiffIdle
    /\ DriverIdle
    /\ inventory_devices = InventoryRows
    /\ WebIdle

\* Arguments of a direct upsert_node call.
UpsertArgs ==
    {[customer_id |-> "c1", device_id |-> "d1", mac_address |-> "AA:BB:CC:00:11:22",
      ip_address |-> "10.0.0.5", hostname |-> None, vlan_id |-> 10,
      switch_port |-> "ether3", vendor_oui |-> "unknown", authorized |-> a] :
        a \in BOOLEAN}

\* Time passes between calls.
Tick ==
    /\ clock < MaxClock
    /\ clock' = clock + 1
    /\ lastOp' = [op |-> "tick"]
    /\ UNCHANGED <<topology_nodes, storeVars, auditVars, diffVars, driverVars, inventory_devices, webVars>>

\* upsert_node(...)
UpsertNodeCall ==
    \E n \in UpsertArgs :
        /\ topology_nodes' = UpsertNode(topology_nodes, n, clock)
        /\ lastOp' = [op |-> "upsert_node", args |-> n]
        /\ UNCHANGED <<clock, storeVars, auditVars, diffVars, driverVars, inventory_devices, webVars>>

\* POST /topology/authorize -> set_node_authorized(customer, mac, authorize)
SetNodeAuthorized ==
    \E c \in Customers, m \in Macs, a \in BOOLEAN :
        /\ topology_nodes' = SetNodeAuthorizedRows(topology_nodes, c, m, a)
        /\ lastOp' = [op |-> "set_node_authorized", customer_id |-> c,
                      mac_address |-> m, authorized |-> a]
        /\ UNCHANGED <<clock, storeVars, auditVars, diffVars, driverVars, inventory_devices, webVars>>

\* The inputs of the k-th selected device of a scan.
RunsFor(devices, k) == IF k <= Len(devices) THEN DeviceRuns(devices[k]) ELSE {NoRun}

\* The state after a scan, as the action records it.
ScanOutcome(customer_filter, vault_ok, inputs, push_fails) ==
    LET r == RunTopologyScanResult(topology_nodes, [rows |-> incidents, seq |-> incident_seq],
                                   customer_filter, vault_ok, inputs, clock, push_fails)
    IN  [rows  |-> r.rows,
         store |-> r.store,
         op    |-> [op |-> "run_topology_scan",
                    devices_left |->
                        IF vault_ok
                        THEN Len(FilterDevices(ActiveDevices, customer_filter)) - Len(r.attempted)
                        ELSE 0,
                    returned |-> ~r.aborted,
                    observed |-> r.observed,
                    push_fails |-> push_fails,
                    authorized_before |->
                        [c \in Customers |-> GetAuthorizedVlanMap(topology_nodes, c)],
                    incidents_before |-> Len(incidents),
                    summary |-> [devices_scanned  |-> r.devices_scanned,
                                 nodes_discovered |-> r.nodes_discovered,
                                 drifts           |-> r.drifts]]]

\* The environment of a scan: whether VaultManager() opens and whether the
\* incident store accepts writes.
ScanEnvs ==
    {[vault_ok |-> TRUE, push_fails |-> FALSE],
     [vault_ok |-> TRUE, push_fails |-> TRUE],
     [vault_ok |-> FALSE, push_fails |-> FALSE]}

\* run_topology_scan(customer_filter)
RunTopologyScan ==
    \E customer_filter \in {None, "c1", "c9"}, env \in ScanEnvs :
      LET devices == IF env.vault_ok THEN FilterDevices(ActiveDevices, customer_filter)
                     ELSE <<>> IN
      \E i1 \in RunsFor(devices, 1), i2 \in RunsFor(devices, 2), i3 \in RunsFor(devices, 3) :
      \E out \in {ScanOutcome(customer_filter, env.vault_ok, <<i1, i2, i3>>, env.push_fails)} :
        /\ Len(out.store.rows) <= MaxIncidents
        /\ topology_nodes' = out.rows
        /\ incidents' = out.store.rows
        /\ incident_seq' = out.store.seq
        /\ lastOp' = out.op
        /\ UNCHANGED <<clock, auditVars, diffVars, driverVars, inventory_devices, webVars>>

TopoNext ==
    \/ Tick
    \/ UpsertNodeCall
    \/ SetNodeAuthorized
    \/ RunTopologyScan

SpecTopo == TopoInit /\ [][TopoNext]_vars

(***************************************************************************)
(* Claims on the topology table                                            *)
(***************************************************************************)

\* The customer's authorized map as get_authorized_vlan_map returns it now.
AuthorizedMap(c) == GetAuthorizedVlanMap(topology_nodes, c)

HasNode(rows, c, m) == \E i \in DOMAIN rows : NodeKeyMatches(rows[i], c, m)
NodeOf(rows, c, m)  == rows[CHOOSE i \in DOMAIN rows : NodeKeyMatches(rows[i], c, m)]
IsAuthorized(rows, c, m) ==
    \E i \in DOMAIN rows : NodeKeyMatches(rows[i], c, m) /\ rows[i].authorized

\* C2: after a scan whose incident writes did not fail, every observed node
\* with a vlan_id, whose MAC was in the customer's authorized map before the
\* scan and whose vlan_id is not in that MAC's set, has a vlan_drift incident
\* of severity HIGH pushed by the scan, carrying the expected VLANs and the
\* found VLAN.
C2_ScanReportsVlanDrift ==
    (lastOp.op = "run_topology_scan" /\ ~lastOp.push_fails) =>
        \A o \in lastOp.observed :
            IsVlanDrift(lastOp.authorized_before[o.customer_id], o.node) =>
                \E i \in (lastOp.incidents_before + 1)..Len(incidents) :
                    /\ incidents[i].customer_id = o.customer_id
                    /\ incidents[i].category = "vlan_drift"
                    /\ incidents[i].severity = "HIGH"
                    /\ incidents[i].payload.mac_address = o.node.mac_address
                    /\ incidents[i].payload.found_vlan = o.node.vlan_id
                    /\ incidents[i].payload.expected_vlans =
                           Sorted(lastOp.authorized_before[o.customer_id][o.node.mac_address])

\* C3: the set of VLANs authorized for a MAC changes only in a step that is
\* the operator's set_node_authorized: no upsert_node call and no scan changes
\* it or drops the MAC from the map.
C3_OnlyOperatorChangesAuthorizedMap ==
    [][\A c \in Customers : \A m \in DOMAIN AuthorizedMap(c) :
          (m \notin DOMAIN AuthorizedMap(c)' \/ AuthorizedMap(c)'[m] # AuthorizedMap(c)[m])
              => lastOp'.op = "set_node_authorized"]_vars

\* C4: a node whose authorized flag is true loses it only in a step that is
\* set_node_authorized(customer, mac, false) for that very node; upsert_node
\* calls and scans keep it (and keep the row).
C4_AuthorizedSticky ==
    [][\A c \in Customers, m \in Macs :
          (IsAuthorized(topology_nodes, c, m) /\ ~IsAuthorized(topology_nodes', c, m))
              => /\ lastOp'.op = "set_node_authorized"
                 /\ lastOp'.customer_id = c
                 /\ lastOp'.mac_address = m
                 /\ lastOp'.authorized = FALSE]_vars

\* C4 witness: a scan has just upserted (with authorized = false) a node that
\* was authorized before the scan, and the node is still authorized.
C4_Witness ==
    /\ lastOp.op = "run_topology_scan"
    /\ \E o \in lastOp.observed :
          /\ o.node.mac_address \in DOMAIN lastOp.authorized_before[o.customer_id]
          /\ IsAuthorized(topology_nodes, o.customer_id, o.node.mac_address)

\* The state part of C5: one row per key, first_seen <= last_seen, and the row
\* of the node just upserted carries the time of that upsert as last_seen.
C5_State ==
    /\ \A i, j \in DOMAIN topology_nodes :
          NodeKeyMatches(topology_nodes[i], topology_nodes[j].customer_id,
                         topology_nodes[j].mac_address) => i = j
    /\ \A i \in DOMAIN topology_nodes :
          topology_nodes[i].first_seen <= topology_nodes[i].last_seen
    /\ lastOp.op = "upsert_node" =>
          /\ HasNode(topology_nodes, lastOp.args.customer_id, lastOp.args.mac_address)
          /\ NodeOf(topology_nodes, lastOp.args.customer_id,
                    lastOp.args.mac_address).last_seen = clock
    /\ lastOp.op = "run_topology_scan" =>
          \A o \in lastOp.observed :
              /\ HasNode(topology_nodes, o.customer_id, o.node.mac_address)
              /\ NodeOf(topology_nodes, o.customer_id, o.node.mac_address).last_seen = clock

\* The step part of C5: a row, once there, stays, keeps its first_seen and
\* never lowers its last_seen; a new row gets the time of its (first) upsert
\* as first_seen.
C5_Step ==
    \A c \in Customers, m \in Macs :
        /\ HasNode(topology_nodes, c, m) =>
              /\ HasNode(topology_nodes', c, m)
              /\ NodeOf(topology_nodes', c, m).first_seen = NodeOf(topology_nodes, c, m).first_seen
              /\ NodeOf(topology_nodes', c, m).last_seen >= NodeOf(topology_nodes, c, m).last_seen
        /\ (~HasNode(topology_nodes, c, m) /\ HasNode(topology_nodes', c, m)) =>
              NodeOf(topology_nodes', c, m).first_seen = clock

\* C5: after any sequence of upsert_node calls there is exactly one row per
\* (customer_id, mac_address); its first_seen is the time of the first upsert
\* and never changes; its last_seen never decreases and is the time of the
\* latest upsert.
C5_OneRowPerNodeSeenTimes == [](C5_State) /\ [][C5_Step]_vars

\* C5 witness: two customers hold a row for the same MAC, and one of the rows
\* has been upserted again at a later time (first_seen < last_seen).
C5_Witness ==
    /\ Len(topology_nodes) = 2
    /\ topology_nodes[1].mac_address = topology_nodes[2].mac_address
    /\ \E i \in DOMAIN topology_nodes :
          topology_nodes[i].first_seen < topology_nodes[i].last_seen

(***************************************************************************)
(* DiffEngine (core/diff_engine.py) and classify_severity                  *)
(***************************************************************************)

ListFields     == <<"interfaces", "routes">>
FirewallField  == "firewall_rules"
DefaultExclude == {"collected_at"}

\* dict.get(key): None when the key is absent.
Get(d, key) == IF key \in DOMAIN d THEN d[key] ELSE None

\* A Python dict is a function on its keys; the empty dict has no keys.
EmptyDict == <<>>
IsEmptyDict(d) == DOMAIN d = {}

\* Values stored in added / removed / modified carry their Python type:
\* a list of entries (list fields) or anything else (scalar fields).
ListValue(items)   == [is_list |-> TRUE, value |-> items]
ScalarValue(value) == [is_list |-> FALSE, value |-> value]

\* DiffReport(): three empty dicts and four empty firewall buckets.
NewDiffReport ==
    [added |-> EmptyDict, removed |-> EmptyDict, modified |-> EmptyDict,
     firewall_audit |-> [position_drift |-> <<>>, parameter_drift |-> <<>>,
                         missing_rules |-> <<>>, extra_rules |-> <<>>]]

HasFirewallDrift(report) ==
    \/ report.firewall_audit.position_drift # <<>>
    \/ report.firewall_audit.parameter_drift # <<>>
    \/ report.firewall_audit.missing_rules # <<>>
    \/ report.firewall_audit.extra_rules # <<>>

HasDrift(report) ==
    \/ ~IsEmptyDict(report.added)
    \/ ~IsEmptyDict(report.removed)
    \/ ~IsEmptyDict(report.modified)
    \/ HasFirewallDrift(report)

\* The members of a tuple of names.
Members(t) == {t[i] : i \in DOMAIN t}

\* _compare_scalar_fields: the keys of either dump that are neither list
\* fields, nor firewall_rules, nor excluded.
ScalarKeys(baseline_data, current_data, exclude_fields) ==
    {k \in DOMAIN baseline_data \cup DOMAIN current_data :
        k \notin Members(ListFields) /\ k # FirewallField /\ k \notin exclude_fields}

\* expected != actual, both read with dict.get.
DiffersAt(expected_data, actual_data, key) ==
    Get(expected_data, key) # Get(actual_data, key)

CompareScalarFields(baseline, current, exclude_fields, report) ==
    LET changed == {k \in ScalarKeys(baseline, current, exclude_fields) :
                        DiffersAt(baseline, current, k)}
        gone    == {k \in changed : k \notin DOMAIN current}
        fresh   == {k \in changed : k \in DOMAIN current /\ k \notin DOMAIN baseline}
        both    == (changed \ gone) \ fresh
    IN  [report EXCEPT
            !.removed  = [k \in gone |-> ScalarValue(baseline[k])] @@ @,
            !.added    = [k \in fresh |-> ScalarValue(current[k])] @@ @,
            !.modified = [k \in both |-> ScalarValue([expected |-> baseline[k],
                                                       actual   |-> current[k]])] @@ @]

\* The per-key changes between two dumped items: {key: {expected, actual}}.
Changes(expected_data, actual_data) ==
    [key \in {k \in DOMAIN expected_data \cup DOMAIN actual_data :
                  DiffersAt(expected_data, actual_data, k)} |->
        [expected |-> Get(expected_data, key), actual |-> Get(actual_data, key)]]

\* dict.setdefault(field_name, []).extend(items)
SetDefaultExtend(d, field_name, items) ==
    IF field_name \in DOMAIN d
    THEN [d EXCEPT ![field_name] = ListValue(@.value \o items)]
    ELSE (field_name :> ListValue(items)) @@ d

HasChanges(entry) == ~IsEmptyDict(entry.changes)

\* A mutation of the list comparison: items only the baseline holds are not
\* reported.
CompareListOrdinalNoRemovals(field_name, baseline_list, current_list, report) ==
    LET min_len == Min(Len(baseline_list), Len(current_list))
        additions == [k \in 1..(Len(current_list) - min_len) |->
                         [index |-> min_len + k - 1, item |-> current_list[min_len + k]]]
    IN  [report EXCEPT
            !.added = IF additions # <<>> THEN SetDefaultExtend(@, field_name, additions)
                      ELSE @]

\* _compare_list_ordinal: pairs by index; the longer tail is added / removed.
\* Indices in the report count from 0.
CompareListOrdinal(field_name, baseline_list, current_list, report) ==
    LET min_len == Min(Len(baseline_list), Len(current_list))
        pairs == [k \in 1..min_len |->
                     [index |-> k - 1,
                      changes |-> Changes(baseline_list[k], current_list[k])]]
        modifications == SelectSeq(pairs, HasChanges)
        additions == [k \in 1..(Len(current_list) - min_len) |->
                         [index |-> min_len + k - 1, item |-> current_list[min_len + k]]]
        removals  == [k \in 1..(Len(baseline_list) - min_len) |->
                         [index |-> min_len + k - 1, item |-> baseline_list[min_len + k]]]
    IN  [report EXCEPT
            !.modified = IF modifications # <<>>
                         THEN SetDefaultExtend(@, field_name, modifications) ELSE @,
            !.added    = IF additions # <<>>
                         THEN SetDefaultExtend(@, field_name, additions) ELSE @,
            !.removed  = IF removals # <<>>
                         THEN SetDefaultExtend(@, field_name, removals) ELSE @]

\* The generic list fields, in the order of _LIST_FIELDS.
RECURSIVE CompareListFields(_, _, _, _, _)
CompareListFields(baseline, current, exclude_fields, k, report) ==
    IF k > Len(ListFields) THEN report
    ELSE LET field_name == ListFields[k]
         IN  CompareListFields(baseline, current, exclude_fields, k + 1,
                 IF field_name \in exclude_fields THEN report
                 ELSE CompareListOrdinal(field_name, baseline[field_name],
                                         current[field_name], report))

\* A mutation of the loop bound: only the indices both lists hold are visited.
FirewallMinLen(baseline, current) ==
    IF baseline # <<>> \/ current # <<>> THEN Min(Len(baseline), Len(current)) ELSE 0

\* max_len = max(len(baseline), len(current)) if baseline or current else 0
FirewallMaxLen(baseline, current) ==
    IF baseline # <<>> \/ current # <<>> THEN Max(Len(baseline), Len(current)) ELSE 0

MissingEntry(baseline, i) == [index |-> i, rule |-> baseline[i + 1]]
ExtraEntry(current, i)    == [index |-> i, rule |-> current[i + 1]]

ParameterEntry(b_rule, c_rule, i) ==
    [index |-> i, comment |-> b_rule.comment, changes |-> Changes(b_rule, c_rule)]

PositionEntry(b_rule, c_rule, i) ==
    [index |-> i, expected_comment |-> b_rule.comment, actual_comment |-> c_rule.comment,
     expected_rule |-> b_rule, actual_rule |-> c_rule]

\* A mutation of the loop body: two absent comments are not the same identity.
CompareFirewallIndexNullDistinct(baseline, current, i, audit) ==
    IF i >= Len(current)
    THEN [audit EXCEPT !.missing_rules = Append(@, MissingEntry(baseline, i))]
    ELSE IF i >= Len(baseline)
    THEN [audit EXCEPT !.extra_rules = Append(@, ExtraEntry(current, i))]
    ELSE LET b_rule == baseline[i + 1]
             c_rule == current[i + 1]
         IN  IF b_rule = c_rule THEN audit
             ELSE IF b_rule.comment = c_rule.comment /\ b_rule.comment # None
             THEN [audit EXCEPT !.parameter_drift =
                                    Append(@, ParameterEntry(b_rule, c_rule, i))]
             ELSE [audit EXCEPT !.position_drift =
                                    Append(@, PositionEntry(b_rule, c_rule, i))]

\* A mutation of the loop body: a baseline rule found anywhere in the current
\* list is taken as present (rules re-paired across indices).
CompareFirewallIndexRepairing(baseline, current, i, audit) ==
    IF i >= Len(current)
    THEN [audit EXCEPT !.missing_rules = Append(@, MissingEntry(baseline, i))]
    ELSE IF i >= Len(baseline)
    THEN [audit EXCEPT !.extra_rules = Append(@, ExtraEntry(current, i))]
    ELSE LET b_rule == baseline[i + 1]
             c_rule == current[i + 1]
         IN  IF \E j \in DOMAIN current : current[j] = b_rule THEN audit
             ELSE IF b_rule.comment = c_rule.comment
             THEN [audit EXCEPT !.parameter_drift =
                                    Append(@, ParameterEntry(b_rule, c_rule, i))]
             ELSE [audit EXCEPT !.position_drift =
                                    Append(@, PositionEntry(b_rule, c_rule, i))]

\* A mutation of the loop body: equal rules are not skipped.
CompareFirewallIndexNoEqualSkip(baseline, current, i, audit) ==
    IF i >= Len(current)
    THEN [audit EXCEPT !.missing_rules = Append(@, MissingEntry(baseline, i))]
    ELSE IF i >= Len(baseline)
    THEN [audit EXCEPT !.extra_rules = Append(@, ExtraEntry(current, i))]
    ELSE LET b_rule == baseline[i + 1]
             c_rule == current[i + 1]
         IN  IF b_rule.comment = c_rule.comment
             THEN [audit EXCEPT !.parameter_drift =
                                    Append(@, ParameterEntry(b_rule, c_rule, i))]
             ELSE [audit EXCEPT !.position_drift =
                                    Append(@, PositionEntry(b_rule, c_rule, i))]

\* One pass of the loop of _compare_firewall_rules, at Python index i.
CompareFirewallIndex(baseline, current, i, audit) ==
    IF i >= Len(current)
    THEN [audit EXCEPT !.missing_rules = Append(@, MissingEntry(baseline, i))]
    ELSE IF i >= Len(baseline)
    THEN [audit EXCEPT !.extra_rules = Append(@, ExtraEntry(current, i))]
    ELSE LET b_rule == baseline[i + 1]
             c_rule == current[i + 1]
         IN  IF b_rule = c_rule THEN audit
             ELSE IF b_rule.comment = c_rule.comment
             THEN [audit EXCEPT !.parameter_drift =
                                    Append(@, ParameterEntry(b_rule, c_rule, i))]
             ELSE [audit EXCEPT !.position_drift =
                                    Append(@, PositionEntry(b_rule, c_rule, i))]

\* for i in range(max_len)
RECURSIVE FirewallLoop(_, _, _, _, _)
FirewallLoop(baseline, current, i, max_len, audit) ==
    IF i >= max_len THEN audit
    ELSE FirewallLoop(baseline, current, i + 1, max_len,
                      CompareFirewallIndex(baseline, current, i, audit))

\* _compare_firewall_rules
CompareFirewallRules(baseline, current, report) ==
    [report EXCEPT !.firewall_audit =
        FirewallLoop(baseline, current, 0, FirewallMaxLen(baseline, current), @)]

\* DiffEngine.compare(baseline, current, exclude_fields)
Compare(baseline, current, exclude_fields) ==
    LET scalars == CompareScalarFields(baseline, current, exclude_fields, NewDiffReport)
        lists   == CompareListFields(baseline, current, exclude_fields, 1, scalars)
    IN  IF FirewallField \in exclude_fields THEN lists
        ELSE CompareFirewallRules(baseline.firewall_rules, current.firewall_rules, lists)

\* A mutation of the default: nothing is excluded from the comparison.
CompareNothingExcluded(baseline, current) == Compare(baseline, current, {})

\* DiffEngine.compare(baseline, current): exclude_fields defaults to a copy of
\* _DEFAULT_EXCLUDE.
CompareDefault(baseline, current) == Compare(baseline, current, DefaultExclude)

\* Severity(IntEnum)
COMPLIANT == 0
LOW       == 1
MEDIUM    == 2
HIGH      == 3
CRITICAL  == 4

SeverityName(level) ==
    CASE level = COMPLIANT -> "COMPLIANT"
      [] level = LOW       -> "LOW"
      [] level = MEDIUM    -> "MEDIUM"
      [] level = HIGH      -> "HIGH"
      [] level = CRITICAL  -> "CRITICAL"

\* any(isinstance(v, list) for v in d.values())
AnyList(d)   == \E k \in DOMAIN d : d[k].is_list
AnyScalar(d) == \E k \in DOMAIN d : ~d[k].is_list

\* A mutation of the classifier: changes in the interfaces / routes lists do
\* not raise the level.
ClassifySeverityNoListRule(report) ==
    IF ~HasDrift(report) THEN COMPLIANT
    ELSE LET l1 == IF AnyScalar(report.modified) \/ AnyScalar(report.added)
                      \/ AnyScalar(report.removed)
                   THEN Max(COMPLIANT, LOW) ELSE COMPLIANT
             l3 == IF report.firewall_audit.parameter_drift # <<>>
                   THEN Max(l1, MEDIUM) ELSE l1
             l4 == IF report.firewall_audit.missing_rules # <<>>
                      \/ report.firewall_audit.extra_rules # <<>>
                   THEN Max(l3, HIGH) ELSE l3
         IN  IF report.firewall_audit.position_drift # <<>>
             THEN Max(l4, CRITICAL) ELSE l4

\* A mutation of the classifier: the first rule that fires decides.
ClassifySeverityFirstRule(report) ==
    IF ~HasDrift(report) THEN COMPLIANT
    ELSE IF AnyScalar(report.modified) \/ AnyScalar(report.added) \/ AnyScalar(report.removed)
    THEN LOW
    ELSE IF AnyList(report.modified) \/ AnyList(report.added) \/ AnyList(report.removed)
    THEN MEDIUM
    ELSE IF report.firewall_audit.parameter_drift # <<>>
    THEN MEDIUM
    ELSE IF report.firewall_audit.missing_rules # <<>>
            \/ report.firewall_audit.extra_rules # <<>>
    THEN HIGH
    ELSE CRITICAL

\* classify_severity(report): the worst kind of drift present.
ClassifySeverity(report) ==
    IF ~HasDrift(report) THEN COMPLIANT
    ELSE LET l1 == IF AnyScalar(report.modified) \/ AnyScalar(report.added)
                      \/ AnyScalar(report.removed)
                   THEN Max(COMPLIANT, LOW) ELSE COMPLIANT
             l2 == IF AnyList(report.modified) \/ AnyList(report.added)
                      \/ AnyList(report.removed)
                   THEN Max(l1, MEDIUM) ELSE l1
             l3 == IF report.firewall_audit.parameter_drift # <<>>
                   THEN Max(l2, MEDIUM) ELSE l2
             l4 == IF report.firewall_audit.missing_rules # <<>>
                      \/ report.firewall_audit.extra_rules # <<>>
                   THEN Max(l3, HIGH) ELSE l3
         IN  IF report.firewall_audit.position_drift # <<>>
             THEN Max(l4, CRITICAL) ELSE l4

(***************************************************************************)
(* SpecDiff: DiffEngine.compare and classify_severity on a pair of         *)
(* DeviceConfig values                                                     *)
(***************************************************************************)

MaxRules == 2

\* FirewallRule values.  RuleSsh and RuleSshDrop share a comment and differ in
\* two fields; RuleSshLower differs from RuleSsh in the case of the comment
\* only; RuleAnon and RuleAnonDrop have no comment.
RuleBase == [chain |-> "input", action |-> "accept", src_address |-> None, dst_address |-> None, protocol |-> "tcp", src_port |-> None, dst_port |-> "22", comment |-> "SSH", disabled |-> FALSE]
RuleSsh      == RuleBase
RuleSshDrop  == [RuleBase EXCEPT !.action = "drop", !.dst_port = "2222"]
RuleSshLower == [RuleBase EXCEPT !.comment = "ssh"]
RuleAnon     == [RuleBase EXCEPT !.comment = None]
RuleAnonDrop == [RuleBase EXCEPT !.comment = None, !.action = "drop"]
Rules        == {RuleSsh, RuleSshDrop, RuleSshLower, RuleAnon, RuleAnonDrop}

\* All lists of at most n rules.
RuleLists(n) == UNION {[1..k -> Rules] : k \in 0..n}

\* Route and Interface values.
RouteA == [destination |-> "0.0.0.0/0", gateway |-> "10.0.0.1", interface |-> None, distance |-> 1, route_type |-> "static"]
RouteB == [RouteA EXCEPT !.gateway = "10.0.0.254", !.distance = 5]
IfaceA == [name |-> "ether1", interface_type |-> "ether", enabled |-> TRUE, running |-> TRUE, mac_address |-> None, mtu |-> 1500, ip_addresses |-> <<>>, vlan_id |-> NullInt, vlan_interface |-> None, comment |-> None, slave |-> FALSE]

\* The part of a DeviceConfig outside firewall_rules.
General(os_version, interfaces, routes, collected_at) ==
    [hostname |-> "rt-01", vendor |-> "mikrotik", model |-> "RB4011",
     os_version |-> os_version, interfaces |-> interfaces, routes |-> routes,
     collected_at |-> collected_at]

\* The baseline side: a reference snapshot and one with other lists.
BaselineGenerals ==
    {General("7.14", <<>>, <<RouteA>>, 1),
     General("7.14", <<IfaceA>>, <<RouteA, RouteB>>, 1)}

\* The current side: the reference, a later collection of the same content,
\* a scalar change, a modified route, and a snapshot with more list items
\* (fewer, against the second baseline).
CurrentGenerals ==
    {General("7.14", <<>>, <<RouteA>>, 1),
     General("7.14", <<>>, <<RouteA>>, 2),
     General("7.15", <<>>, <<RouteA>>, 2),
     General("7.14", <<>>, <<RouteB>>, 2),
     General("7.14", <<IfaceA>>, <<RouteA, RouteB>>, 2)}

\* DeviceConfig(**general, firewall_rules=rules)
DeviceConfig(general, rules) ==
    [hostname |-> general.hostname, vendor |-> general.vendor, model |-> general.model,
     os_version |-> general.os_version, interfaces |-> general.interfaces,
     routes |-> general.routes, firewall_rules |-> rules,
     collected_at |-> general.collected_at]

\* The topology table and the incident store at rest.
TopoIdle ==
    /\ topology_nodes = <<>>
    /\ clock = 1
    /\ incidents = <<>>
    /\ incident_seq = 0

DiffInit ==
    /\ TopoIdle
    /\ AuditIdle
    /\ DriverIdle
    /\ inventory_devices = InventoryRows
    /\ WebIdle
    /\ lastOp = [op |-> "init"]
    /\ \E gb \in BaselineGenerals, gc \in CurrentGenerals :
       \E rb \in RuleLists(MaxRules), rc \in RuleLists(MaxRules) :
          /\ diffBaseline = DeviceConfig(gb, rb)
          /\ diffCurrent = DeviceConfig(gc, rc)
    /\ diffReport = NewDiffReport
    /\ diffSeverity = COMPLIANT
    /\ diffPc = "input"

\* report = DiffEngine.compare(baseline, current); classify_severity(report)
DoCompare ==
    /\ diffPc = "input"
    /\ \E report \in {CompareDefault(diffBaseline, diffCurrent)} :
          /\ diffReport' = report
          /\ diffSeverity' = ClassifySeverity(report)
    /\ diffPc' = "done"
    /\ lastOp' = [op |-> "compare"]
    /\ UNCHANGED <<topoVars, storeVars, auditVars, diffBaseline, diffCurrent, driverVars, inventory_devices, webVars>>

DiffNext == DoCompare

SpecDiff == DiffInit /\ [][DiffNext]_vars

(***************************************************************************)
(* Claims on DiffEngine.compare                                            *)
(***************************************************************************)

RuleFields == {"chain", "action", "src_address", "dst_address", "protocol", "src_port", "dst_port", "comment", "disabled"}

Buckets == {"position_drift", "parameter_drift", "missing_rules", "extra_rules"}

\* The entries of a bucket of the returned report that carry index i.
EntriesAt(bucket, i) ==
    LET entries == diffReport.firewall_audit[bucket]
    IN  {k \in DOMAIN entries : entries[k].index = i}

\* The entry a bucket holds for index i, when it holds exactly one.
EntryAt(bucket, i) ==
    diffReport.firewall_audit[bucket][CHOOSE k \in EntriesAt(bucket, i) : TRUE]

IndicesOf(entries) == {entries[k].index : k \in DOMAIN entries}

\* The fields in which two rules differ, with the baseline's and the current's value.
ExpectedChanges(b, c) ==
    [f \in {g \in RuleFields : b[g] # c[g]} |-> [expected |-> b[f], actual |-> c[f]]]

\* C6: at an index both firewall lists hold, equal rules record nothing; rules
\* that differ under one comment (compared exactly, two absent comments being
\* equal) record exactly one parameter_drift entry {index, comment, changes}
\* whose changes are exactly the differing fields; rules that differ and have
\* different comments record exactly one position_drift entry with both
\* comments and both rules.
C6_SameIndexClassification ==
    diffPc = "done" =>
        LET B == diffBaseline.firewall_rules
            C == diffCurrent.firewall_rules
        IN  \A i \in 0..(Min(Len(B), Len(C)) - 1) :
              LET b == B[i + 1]
                  c == C[i + 1]
                  nParam == Cardinality(EntriesAt("parameter_drift", i))
                  nPos   == Cardinality(EntriesAt("position_drift", i))
              IN  /\ b = c => nParam = 0 /\ nPos = 0
                  /\ (b # c /\ b.comment = c.comment) =>
                        /\ nParam = 1 /\ nPos = 0
                        /\ EntryAt("parameter_drift", i) =
                              [index |-> i, comment |-> b.comment,
                               changes |-> ExpectedChanges(b, c)]
                  /\ (b # c /\ b.comment # c.comment) =>
                        /\ nPos = 1 /\ nParam = 0
                        /\ EntryAt("position_drift", i) =
                              [index |-> i, expected_comment |-> b.comment,
                               actual_comment |-> c.comment,
                               expected_rule |-> b, actual_rule |-> c]

\* A comparison that met, at index 0, two different rules without comment
\* and, at index 1, two rules whose comments differ in case only.
C6_Witness ==
    /\ diffPc = "done"
    /\ diffBaseline.firewall_rules = <<RuleAnon, RuleSsh>>
    /\ diffCurrent.firewall_rules = <<RuleAnonDrop, RuleSshLower>>
    /\ IndicesOf(diffReport.firewall_audit.parameter_drift) = {0}
    /\ IndicesOf(diffReport.firewall_audit.position_drift) = {1}

\* C7: every index below max(|B|,|C|) has at most one entry over the four
\* firewall buckets; indices from |C| on are in missing_rules only, indices
\* from |B| on in extra_rules only; missing_rules and extra_rules are never
\* both non-empty and together hold ||B|-|C|| entries.
C7_OneEntryPerIndex ==
    diffPc = "done" =>
        LET B  == diffBaseline.firewall_rules
            C  == diffCurrent.firewall_rules
            fa == diffReport.firewall_audit
            total(i) == Cardinality(EntriesAt("position_drift", i))
                        + Cardinality(EntriesAt("parameter_drift", i))
                        + Cardinality(EntriesAt("missing_rules", i))
                        + Cardinality(EntriesAt("extra_rules", i))
        IN  /\ \A i \in 0..(Max(Len(B), Len(C)) - 1) :
                  /\ total(i) <= 1
                  /\ i >= Len(C) => Cardinality(EntriesAt("missing_rules", i)) = 1
                  /\ i >= Len(B) => Cardinality(EntriesAt("extra_rules", i)) = 1
                  /\ i < Len(C) => EntriesAt("missing_rules", i) = {}
                  /\ i < Len(B) => EntriesAt("extra_rules", i) = {}
            /\ \A bucket \in Buckets :
                  IndicesOf(fa[bucket]) \subseteq 0..(Max(Len(B), Len(C)) - 1)
            /\ ~(fa.missing_rules # <<>> /\ fa.extra_rules # <<>>)
            /\ Len(fa.missing_rules) + Len(fa.extra_rules) =
                  Max(Len(B), Len(C)) - Min(Len(B), Len(C))

\* A comparison of a two-rule baseline with a one-rule current list whose
\* only rule drifted: one parameter_drift entry and one missing rule.
C7_Witness ==
    /\ diffPc = "done"
    /\ Len(diffBaseline.firewall_rules) = 2
    /\ Len(diffCurrent.firewall_rules) = 1
    /\ Len(diffReport.firewall_audit.parameter_drift) = 1
    /\ IndicesOf(diffReport.firewall_audit.missing_rules) = {1}

\* The list with the items at positions i and j (from 1) exchanged.
Swapped(list, i, j) == [list EXCEPT ![i] = list[j], ![j] = list[i]]

\* The pairs of positions whose exchange turns the baseline's rules into the
\* current ones, the two rules having different comments.
SwapPositions ==
    LET B == diffBaseline.firewall_rules
        C == diffCurrent.firewall_rules
    IN  {p \in (DOMAIN B) \X (DOMAIN B) :
            /\ p[1] < p[2]
            /\ B[p[1]].comment # B[p[2]].comment
            /\ C = Swapped(B, p[1], p[2])}

\* C8: when the current rules are the baseline's with two rules of different
\* comments exchanged, the report holds exactly two position_drift entries,
\* at the two positions, no parameter_drift, no missing and no extra rules,
\* and the severity is CRITICAL.
C8_SwapIsTwoPositionDrifts ==
    diffPc = "done" =>
        \A p \in SwapPositions :
            LET fa == diffReport.firewall_audit
            IN  /\ Len(fa.position_drift) = 2
                /\ IndicesOf(fa.position_drift) = {p[1] - 1, p[2] - 1}
                /\ fa.parameter_drift = <<>>
                /\ fa.missing_rules = <<>>
                /\ fa.extra_rules = <<>>
                /\ diffSeverity = CRITICAL

\* A comparison whose current rules are the baseline's two rules exchanged.
C8_Witness ==
    /\ diffPc = "done"
    /\ SwapPositions # {}
    /\ Len(diffReport.firewall_audit.position_drift) = 2

\* Two snapshots that agree on every field other than collected_at.
SameButCollectedAt(x, y) ==
    \A f \in DOMAIN x : f # "collected_at" => x[f] = y[f]

\* C9: comparing a snapshot with itself, or with one that differs only in
\* collected_at, reports no drift: added, removed and modified are empty and
\* so are the four firewall buckets.
C9_SelfCompareNoDrift ==
    (diffPc = "done" /\ SameButCollectedAt(diffBaseline, diffCurrent)) =>
        /\ ~HasDrift(diffReport)
        /\ DOMAIN diffReport.added = {}
        /\ DOMAIN diffReport.removed = {}
        /\ DOMAIN diffReport.modified = {}
        /\ \A bucket \in Buckets : diffReport.firewall_audit[bucket] = <<>>

\* A snapshot with two firewall rules, one route and one interface compared
\* with a later collection of the same content.
C9_Witness ==
    /\ diffPc = "done"
    /\ SameButCollectedAt(diffBaseline, diffCurrent)
    /\ diffBaseline.collected_at # diffCurrent.collected_at
    /\ Len(diffBaseline.firewall_rules) = 2
    /\ diffBaseline.routes # <<>>
    /\ diffBaseline.interfaces # <<>>

\* The list-valued entries of one of the dicts of a report.
ListEntries(d) == [k \in {f \in DOMAIN d : d[f].is_list} |-> d[k].value]

\* A changes dict with expected and actual exchanged.
Exchanged(changes) ==
    [k \in DOMAIN changes |->
        [expected |-> changes[k].actual, actual |-> changes[k].expected]]

MirrorPosition(e) ==
    [index |-> e.index, expected_comment |-> e.actual_comment,
     actual_comment |-> e.expected_comment,
     expected_rule |-> e.actual_rule, actual_rule |-> e.expected_rule]

MirrorParameter(e) ==
    [index |-> e.index, comment |-> e.comment, changes |-> Exchanged(e.changes)]

\* C10: compare(x, y) and compare(y, x) agree on has_drift; the list entries
\* added in one are the list entries removed in the other; missing_rules of
\* one is extra_rules of the other; position_drift and parameter_drift hold
\* the same indices in both, with expected and actual exchanged.
C10_CompareSymmetric ==
    diffPc = "done" =>
        LET fwd == diffReport
            rev == CompareDefault(diffCurrent, diffBaseline)
        IN  /\ HasDrift(fwd) = HasDrift(rev)
            /\ ListEntries(fwd.added) = ListEntries(rev.removed)
            /\ ListEntries(fwd.removed) = ListEntries(rev.added)
            /\ fwd.firewall_audit.missing_rules = rev.firewall_audit.extra_rules
            /\ fwd.firewall_audit.extra_rules = rev.firewall_audit.missing_rules
            /\ IndicesOf(fwd.firewall_audit.position_drift) =
                  IndicesOf(rev.firewall_audit.position_drift)
            /\ IndicesOf(fwd.firewall_audit.parameter_drift) =
                  IndicesOf(rev.firewall_audit.parameter_drift)
            /\ rev.firewall_audit.position_drift =
                  [k \in DOMAIN fwd.firewall_audit.position_drift |->
                      MirrorPosition(fwd.firewall_audit.position_drift[k])]
            /\ rev.firewall_audit.parameter_drift =
                  [k \in DOMAIN fwd.firewall_audit.parameter_drift |->
                      MirrorParameter(fwd.firewall_audit.parameter_drift[k])]

\* A comparison with a route removed, an interface removed, a missing rule
\* and a position drift, so that every part of the symmetry is exercised.
C10_Witness ==
    /\ diffPc = "done"
    /\ "routes" \in DOMAIN diffReport.removed
    /\ "interfaces" \in DOMAIN diffReport.removed
    /\ diffReport.firewall_audit.missing_rules # <<>>
    /\ diffReport.firewall_audit.position_drift # <<>>

(***************************************************************************)
(* Claims on classify_severity                                             *)
(***************************************************************************)

\* Some bucket of the returned report is non-empty.
AnyBucketNonEmpty ==
    \/ DOMAIN diffReport.added # {}
    \/ DOMAIN diffReport.removed # {}
    \/ DOMAIN diffReport.modified # {}
    \/ \E bucket \in Buckets : Len(diffReport.firewall_audit[bucket]) > 0

\* C11: for a report of the diff engine, the severity is at least LOW exactly
\* when added, removed, modified or a firewall bucket is non-empty, and it is
\* COMPLIANT exactly when has_drift is false.
C11_SeverityIffDrift ==
    diffPc = "done" =>
        /\ (diffSeverity >= LOW) <=> AnyBucketNonEmpty
        /\ (diffSeverity = COMPLIANT) <=> ~HasDrift(diffReport)

\* A comparison whose only drift is in the routes list.
C11_Witness ==
    /\ diffPc = "done"
    /\ DOMAIN diffReport.modified = {"routes"}
    /\ DOMAIN diffReport.added = {}
    /\ DOMAIN diffReport.removed = {}
    /\ ~HasFirewallDrift(diffReport)
    /\ diffSeverity >= LOW

\* The dicts of the returned report under one name.
ReportDict(name) ==
    CASE name = "added"    -> diffReport.added
      [] name = "removed"  -> diffReport.removed
      [] name = "modified" -> diffReport.modified

DictNames == {"added", "removed", "modified"}

\* A list field has entries added, removed or modified / a scalar field differs.
ListDriftReported   == \E n \in DictNames : \E k \in DOMAIN ReportDict(n) : ReportDict(n)[k].is_list
ScalarDriftReported == \E n \in DictNames : \E k \in DOMAIN ReportDict(n) : ~ReportDict(n)[k].is_list

\* The returned report with one firewall bucket emptied, or one key taken
\* out of added, removed or modified.
LesserReports ==
    {[diffReport EXCEPT !.firewall_audit[bucket] = <<>>] : bucket \in Buckets}
    \cup {[diffReport EXCEPT !.added = [k \in (DOMAIN diffReport.added) \ {f} |-> diffReport.added[k]]] : f \in DOMAIN diffReport.added}
    \cup {[diffReport EXCEPT !.removed = [k \in (DOMAIN diffReport.removed) \ {f} |-> diffReport.removed[k]]] : f \in DOMAIN diffReport.removed}
    \cup {[diffReport EXCEPT !.modified = [k \in (DOMAIN diffReport.modified) \ {f} |-> diffReport.modified[k]]] : f \in DOMAIN diffReport.modified}

\* C12: the severity is the highest level among the rules that fire: CRITICAL
\* with position drift; else HIGH with missing or extra rules; else MEDIUM
\* with parameter drift or a change in the interfaces / routes lists; else
\* LOW with scalar changes only; and a report holding less drift is never
\* classified higher.
C12_SeverityIsWorstRule ==
    diffPc = "done" =>
        LET fa == diffReport.firewall_audit
        IN  /\ diffSeverity =
                  IF fa.position_drift # <<>> THEN CRITICAL
                  ELSE IF fa.missing_rules # <<>> \/ fa.extra_rules # <<>> THEN HIGH
                  ELSE IF fa.parameter_drift # <<>> \/ ListDriftReported THEN MEDIUM
                  ELSE IF ScalarDriftReported THEN LOW
                  ELSE COMPLIANT
            /\ \A lesser \in LesserReports : ClassifySeverity(lesser) <= diffSeverity

\* A comparison in which rules of every level fire at once: a scalar change,
\* a list change, an extra rule and position drift.
C12_Witness ==
    /\ diffPc = "done"
    /\ ScalarDriftReported
    /\ ListDriftReported
    /\ diffReport.firewall_audit.extra_rules # <<>>
    /\ diffReport.firewall_audit.position_drift # <<>>
    /\ diffSeverity = CRITICAL

(***************************************************************************)
(* audit_service: baseline files and audit_device                          *)
(***************************************************************************)

\* baselines/<customer_id>/<device_id>.json
BaselinePath(customer_id, device_id) == <<customer_id, device_id>>

NoFile == [exists |-> FALSE]
FileOf(content) == [exists |-> TRUE, content |-> content]

\* A datetime as JSON carries it: an ISO 8601 string, and back.
IsoFormat(t)  == <<"iso8601", t>>
FromIso(text) == text[2]

\* config.model_dump_json(indent=2): a JSON document with every field,
\* collected_at as an ISO 8601 string.
ModelDumpJson(config) ==
    [format |-> "json", doc |-> [config EXCEPT !.collected_at = IsoFormat(@)]]

\* The DeviceConfig a valid document validates to.
ModelValidateJson(content) == [content.doc EXCEPT !.collected_at = FromIso(@)]

\* Two contents that do not load: text that is not JSON, and a JSON document
\* without the required field hostname.
GarbageContent     == [format |-> "text"]
IncompleteContent  == [format |-> "json", doc |-> [vendor |-> "mikrotik"]]

RequiredFields == {"hostname", "vendor"}

\* DeviceConfig.model_validate_json(text): raises unless the text is JSON
\* holding the required fields.
ValidatesAsDeviceConfig(content) ==
    /\ content.format = "json"
    /\ RequiredFields \subseteq DOMAIN content.doc

\* A mutation of load_baseline: no baseline is ever found.
LoadBaselineNeverFinds(files, customer_id, device_id) == [found |-> FALSE]

\* load_baseline: None when the file does not exist, and None as well when
\* reading or validating it raises.
LoadBaseline(files, customer_id, device_id) ==
    LET file == files[BaselinePath(customer_id, device_id)]
    IN  IF ~file.exists THEN [found |-> FALSE]
        ELSE IF ValidatesAsDeviceConfig(file.content)
             THEN [found |-> TRUE, config |-> ModelValidateJson(file.content)]
             ELSE [found |-> FALSE]

\* save_baseline: write_text replaces whatever the path held.
SaveBaseline(files, customer_id, device_id, config) ==
    [files EXCEPT ![BaselinePath(customer_id, device_id)] =
        FileOf(ModelDumpJson(config))]

\* DiffReport.summary(): the four counts of the one-line summary.
Summary(report) ==
    [text     |-> "DiffReport",
     added    |-> Cardinality(DOMAIN report.added),
     removed  |-> Cardinality(DOMAIN report.removed),
     modified |-> Cardinality(DOMAIN report.modified),
     firewall_issues |-> Len(report.firewall_audit.position_drift)
                         + Len(report.firewall_audit.parameter_drift)
                         + Len(report.firewall_audit.missing_rules)
                         + Len(report.firewall_audit.extra_rules)]

\* AuditResult(...)
AuditResult(customer_id, device_id, has_drift, severity, incident_id, summary) ==
    [op |-> "audit_device", customer_id |-> customer_id, device_id |-> device_id,
     has_drift |-> has_drift, severity |-> severity, incident_id |-> incident_id,
     summary |-> summary]

\* An audit_device that records an incident for every audit of a device
\* that has a baseline, compliant or not.
AuditDeviceAlwaysPushes(files, store, dev, live_config, push_fails) ==
    LET baseline == LoadBaseline(files, dev.customer_id, dev.device_id)
    IN  IF ~baseline.found
        THEN [files  |-> SaveBaseline(files, dev.customer_id, dev.device_id, live_config),
              store  |-> store,
              result |-> AuditResult(dev.customer_id, dev.device_id, FALSE, None, NullInt,
                                     [text |-> "Baseline inicial criada."])]
        ELSE LET report == CompareDefault(baseline.config, live_config)
                 severity == ClassifySeverity(report)
                 pushed == PushIncident(store, dev.customer_id, dev.device_id,
                               SeverityName(severity), "configuration_drift",
                               [diff |-> report, vendor |-> dev.vendor,
                                hostname |-> live_config.hostname,
                                os_version |-> live_config.os_version,
                                model |-> live_config.model],
                               push_fails)
             IN  [files  |-> files,
                  store  |-> pushed.store,
                  result |-> AuditResult(dev.customer_id, dev.device_id, HasDrift(report),
                                         SeverityName(severity), pushed.id,
                                         Summary(report))]

\* audit_device(customer_id, device_id, vendor, live_config): the files, the
\* incident store and the result it leaves.
AuditDeviceResult(files, store, dev, live_config, push_fails) ==
    LET baseline == LoadBaseline(files, dev.customer_id, dev.device_id)
    IN  IF ~baseline.found
        THEN [files  |-> SaveBaseline(files, dev.customer_id, dev.device_id, live_config),
              store  |-> store,
              result |-> AuditResult(dev.customer_id, dev.device_id, FALSE, None, NullInt,
                                     [text |-> "Baseline inicial criada."])]
        ELSE LET report == CompareDefault(baseline.config, live_config)
             IN  IF ~HasDrift(report)
                 THEN [files  |-> files,
                       store  |-> store,
                       result |-> AuditResult(dev.customer_id, dev.device_id, FALSE, None,
                                              NullInt, [text |-> "Nenhum desvio detectado."])]
                 ELSE LET severity == ClassifySeverity(report)
                          pushed == PushIncident(store, dev.customer_id, dev.device_id,
                                        SeverityName(severity), "configuration_drift",
                                        [diff |-> report, vendor |-> dev.vendor,
                                         hostname |-> live_config.hostname,
                                         os_version |-> live_config.os_version,
                                         model |-> live_config.model],
                                        push_fails)
                      IN  [files  |-> files,
                           store  |-> pushed.store,
                           result |-> AuditResult(dev.customer_id, dev.device_id, TRUE,
                                                  SeverityName(severity), pushed.id,
                                                  Summary(report))]

(***************************************************************************)
(* SpecAudit: the baseline files under audit_device                        *)
(***************************************************************************)

\* The devices audited.
AuditTargets ==
    {[customer_id |-> "c1", device_id |-> "d1", vendor |-> "mikrotik"],
     [customer_id |-> "c2", device_id |-> "d2", vendor |-> "mikrotik"]}

BaselinePaths == {BaselinePath(dev.customer_id, dev.device_id) : dev \in AuditTargets}

\* The documented configuration and the snapshots a device may return.
ReferenceConfig == DeviceConfig(General("7.14", <<>>, <<RouteA>>, 1), <<RuleSsh, RuleAnon>>)
LiveConfigs ==
    {DeviceConfig(General("7.14", <<>>, <<RouteA>>, 2), <<RuleSsh, RuleAnon>>),
     DeviceConfig(General("7.15", <<>>, <<RouteA>>, 2), <<RuleAnon, RuleSsh>>),
     DeviceConfig(General("7.15", <<>>, <<RouteA>>, 3), <<RuleAnon, RuleSsh>>)}

\* What the baselines directory may hold for a device when the auditor starts.
InitialFiles ==
    {NoFile, FileOf(GarbageContent), FileOf(IncompleteContent),
     FileOf(ModelDumpJson(ReferenceConfig))}

AuditInit ==
    /\ TopoIdle
    /\ DiffIdle
    /\ DriverIdle
    /\ inventory_devices = InventoryRows
    /\ WebIdle
    /\ lastOp = [op |-> "init"]
    /\ baselines \in [BaselinePaths -> InitialFiles]
    /\ auditResult = [op |-> "none"]

\* audit_device(...) on one device with the snapshot collected from it.
AuditDevice ==
    \E dev \in AuditTargets, live_config \in LiveConfigs, push_fails \in BOOLEAN :
    \E out \in {AuditDeviceResult(baselines, [rows |-> incidents, seq |-> incident_seq],
                                  dev, live_config, push_fails)} :
        /\ Len(out.store.rows) <= MaxIncidents
        /\ baselines' = out.files
        /\ incidents' = out.store.rows
        /\ incident_seq' = out.store.seq
        /\ auditResult' = out.result
        /\ lastOp' = [op |-> "audit_device", customer_id |-> dev.customer_id,
                      device_id |-> dev.device_id,
                      live_config |-> live_config,
                      incidents_before |-> incidents,
                      file_before |-> baselines[BaselinePath(dev.customer_id, dev.device_id)]]
        /\ UNCHANGED <<topoVars, diffVars, driverVars, inventory_devices, webVars>>

\* How an onboarding capture goes once a driver exists: the snapshot it
\* returns, or an exception from the session.
CaptureRuns == {[kind |-> "collected", live_config |-> c] : c \in LiveConfigs} \cup {[kind |-> "error"]}

\* capture_initial_baseline(customer_id, device_id, vendor, ...): the files it
\* leaves and the (success, message) pair.
CaptureInitialBaselineResult(files, dev, vendor, run) ==
    IF LoadBaseline(files, dev.customer_id, dev.device_id).found
    THEN [files |-> files, ok |-> TRUE, message |-> "kept"]
    ELSE IF vendor # "mikrotik"
    THEN [files |-> files, ok |-> FALSE, message |-> "no driver"]
    ELSE IF run.kind = "collected"
    THEN [files |-> SaveBaseline(files, dev.customer_id, dev.device_id, run.live_config),
          ok |-> TRUE, message |-> "captured"]
    ELSE [files |-> files, ok |-> FALSE, message |-> "pending"]

\* capture_initial_baseline(...) during onboarding; vendor is vendor.lower().
CaptureInitialBaseline ==
    \E dev \in AuditTargets, vendor \in {"mikrotik", "cisco"}, run \in CaptureRuns :
    \E out \in {CaptureInitialBaselineResult(baselines, dev, vendor, run)} :
        /\ baselines' = out.files
        /\ auditResult' = [op |-> "capture_initial_baseline", ok |-> out.ok,
                           message |-> out.message]
        /\ lastOp' = [op |-> "capture_initial_baseline", customer_id |-> dev.customer_id,
                      device_id |-> dev.device_id,
                      file_before |-> baselines[BaselinePath(dev.customer_id, dev.device_id)]]
        /\ UNCHANGED <<topoVars, storeVars, diffVars, driverVars, inventory_devices, webVars>>

\* How the audit of one device goes: the vault has no credentials for it,
\* the vault fails, the session fails (connection, timeout, OS error, or an
\* exception of another kind), or a snapshot is collected.
AuditFailureKinds ==
    {"credential_not_found", "vault_error", "connection_error", "timeout", "os_error",
     "unexpected_error"}

\* The snapshot the devices return during a round.
RoundConfig == DeviceConfig(General("7.15", <<>>, <<RouteA>>, 2), <<RuleAnon, RuleSsh>>)

AuditRuns(dev) ==
    IF dev.device_id = "d1"
    THEN {[kind |-> k] : k \in AuditFailureKinds}
         \cup {[kind |-> "collected", live_config |-> RoundConfig]}
    ELSE IF dev.device_id = "d2"
    THEN {[kind |-> "timeout"], [kind |-> "collected", live_config |-> RoundConfig]}
    ELSE {[kind |-> "credential_not_found"], [kind |-> "collected", live_config |-> RoundConfig]}

\* _audit_device(vault, device_info): credentials, driver for the vendor
\* (ValueError for a vendor without driver), snapshot, audit_device.  raised
\* tells whether an exception left the function.
AuditOneDevice(st, dev, run, push_fails) ==
    IF run.kind \in {"credential_not_found", "vault_error"}
    THEN [st EXCEPT !.raised = TRUE]
    ELSE IF dev.vendor # "mikrotik"
    THEN [st EXCEPT !.raised = TRUE]
    ELSE IF run.kind # "collected"
    THEN [st EXCEPT !.raised = TRUE]
    ELSE LET out == AuditDeviceResult(st.files, st.store, dev, run.live_config, push_fails)
         IN  [st EXCEPT !.files = out.files, !.store = out.store, !.raised = FALSE]

\* One pass of the loop: the device is attempted and counted.
AuditLoopPass(st, dev, run, push_fails) ==
    LET after == AuditOneDevice(st, dev, run, push_fails)
    IN  [after EXCEPT
            !.attempted = Append(@, dev.device_id),
            !.success_count = IF after.raised THEN @ ELSE @ + 1,
            !.failure_count = IF after.raised THEN @ + 1 ELSE @]

\* A mutation of the loop: the first exception ends the round.
RECURSIVE AuditLoopStopsOnFailure(_, _, _, _, _)
AuditLoopStopsOnFailure(st, devices, inputs, i, push_fails) ==
    IF i > Len(devices) THEN st
    ELSE LET after == AuditLoopPass(st, devices[i], inputs[i], push_fails)
         IN  IF after.raised THEN after
             ELSE AuditLoopStopsOnFailure(after, devices, inputs, i + 1, push_fails)

\* for device_info in inventory_devices: try _audit_device(...) except ...
RECURSIVE AuditLoop(_, _, _, _, _)
AuditLoop(st, devices, inputs, i, push_fails) ==
    IF i > Len(devices) THEN st
    ELSE AuditLoop(AuditLoopPass(st, devices[i], inputs[i], push_fails),
                   devices, inputs, i + 1, push_fails)

\* run_audit_loop(): nothing happens with an empty inventory or when
\* VaultManager() fails; otherwise the loop runs over the inventory.
RunAuditLoopResult(files, store, devices, vault_ok, inputs, push_fails) ==
    LET start == [files |-> files, store |-> store, raised |-> FALSE, attempted |-> <<>>,
                  success_count |-> 0, failure_count |-> 0]
    IN  IF devices = <<>> \/ ~vault_ok THEN start
        ELSE AuditLoop(start, devices, inputs, 1, push_fails)

\* The inputs of the k-th device of the inventory in an audit round.
AuditRunsFor(devices, k) ==
    IF k <= Len(devices) THEN AuditRuns(devices[k]) ELSE {[kind |-> "none"]}

\* Whether the audit of a device with this run ends in an exception.
RunRaises(dev, run) == run.kind # "collected" \/ dev.vendor # "mikrotik"

\* run_audit_loop()
RunAuditLoop ==
    \E devices \in {<<>>, ActiveDevices}, env \in ScanEnvs :
      LET reached == IF env.vault_ok THEN devices ELSE <<>> IN
    \E i1 \in AuditRunsFor(reached, 1), i2 \in AuditRunsFor(reached, 2), i3 \in AuditRunsFor(reached, 3) :
    \E out \in {RunAuditLoopResult(baselines, [rows |-> incidents, seq |-> incident_seq],
                                    devices, env.vault_ok, <<i1, i2, i3>>, env.push_fails)} :
        /\ Len(out.store.rows) <= MaxIncidents
        /\ baselines' = out.files
        /\ incidents' = out.store.rows
        /\ incident_seq' = out.store.seq
        /\ auditResult' = [op |-> "run_audit_loop", success_count |-> out.success_count,
                           failure_count |-> out.failure_count]
        /\ lastOp' = [op |-> "run_audit_loop",
                      inventory |-> [k \in DOMAIN devices |-> devices[k].device_id],
                      vault_ok |-> env.vault_ok,
                      raises |-> [k \in DOMAIN devices |-> RunRaises(devices[k], <<i1, i2, i3>>[k])],
                      attempted |-> out.attempted]
        /\ UNCHANGED <<topoVars, diffVars, driverVars, inventory_devices, webVars>>

AuditNext ==
    \/ AuditDevice
    \/ CaptureInitialBaseline
    \/ RunAuditLoop

SpecAudit == AuditInit /\ [][AuditNext]_vars

(***************************************************************************)
(* Claims on the baseline files                                            *)
(***************************************************************************)

\* The file exists and load_baseline cannot read or validate it.
ExistsButUnreadable(file) == file.exists /\ ~ValidatesAsDeviceConfig(file.content)

\* C1: when audit_device runs on a device whose baseline file exists but does
\* not load, the file is left as it was and the audit is not answered as an
\* initial-baseline save.
C1_UnreadableBaselineKept ==
    (lastOp.op = "audit_device" /\ ExistsButUnreadable(lastOp.file_before)) =>
        /\ baselines[BaselinePath(lastOp.customer_id, lastOp.device_id)] = lastOp.file_before
        /\ auditResult.summary.text # "Baseline inicial criada."

\* The baseline file of the device the last operation worked on.
LastFile == baselines[BaselinePath(lastOp.customer_id, lastOp.device_id)]

\* The state part of C13: an audit that met no baseline file has saved the
\* live snapshot as the baseline, pushed no incident and reported no drift.
C13_State ==
    (lastOp.op = "audit_device" /\ ~lastOp.file_before.exists) =>
        /\ LastFile = FileOf(ModelDumpJson(lastOp.live_config))
        /\ incidents = lastOp.incidents_before
        /\ auditResult.has_drift = FALSE
        /\ auditResult.incident_id = NullInt
        /\ auditResult.severity = None
        /\ auditResult.summary.text = "Baseline inicial criada."

\* The step part of C13: the audit that follows such a first audit, on the
\* same device with the configuration unchanged (collected again, possibly
\* later), finds the baseline, reports no drift, pushes nothing and leaves
\* the file alone.
C13_Step ==
    (/\ lastOp.op = "audit_device"
     /\ ~lastOp.file_before.exists
     /\ lastOp'.op = "audit_device"
     /\ lastOp'.customer_id = lastOp.customer_id
     /\ lastOp'.device_id = lastOp.device_id
     /\ SameButCollectedAt(lastOp.live_config, lastOp'.live_config)) =>
        /\ auditResult'.has_drift = FALSE
        /\ auditResult'.summary.text = "Nenhum desvio detectado."
        /\ incidents' = incidents
        /\ baselines' = baselines

\* C13: with no baseline file the audit saves the live snapshot as the initial
\* baseline and stops (no incident, no drift reported); the next audit of the
\* same unchanged configuration finds that baseline and reports no drift.
C13_FirstAuditSavesBaseline == [](C13_State) /\ [][C13_Step]_vars

\* An audit met no baseline file, and the file it left loads as the snapshot
\* it was given.
C13_Witness ==
    /\ lastOp.op = "audit_device"
    /\ ~lastOp.file_before.exists
    /\ LastFile.exists
    /\ ValidatesAsDeviceConfig(LastFile.content)
    /\ ModelValidateJson(LastFile.content) = lastOp.live_config

RaisedCount(flag) == Cardinality({k \in DOMAIN lastOp.raises : lastOp.raises[k] = flag})

\* C15: in a round of the audit loop whose vault initialised, every inventory
\* device is attempted exactly once, in inventory order, whatever exceptions
\* the earlier devices raised; every exception counts as one failure, and
\* success_count + failure_count is the number of devices.
C15_AuditLoopIsolatesDevices ==
    (lastOp.op = "run_audit_loop" /\ lastOp.vault_ok) =>
        /\ lastOp.attempted = lastOp.inventory
        /\ auditResult.failure_count = RaisedCount(TRUE)
        /\ auditResult.success_count = RaisedCount(FALSE)
        /\ auditResult.success_count + auditResult.failure_count = Len(lastOp.inventory)

\* A round in which the first device raised, the second was audited and the
\* third raised.
C15_Witness ==
    /\ lastOp.op = "run_audit_loop"
    /\ lastOp.vault_ok
    /\ lastOp.raises = <<TRUE, FALSE, TRUE>>
    /\ lastOp.attempted = <<"d1", "d2", "d3">>
    /\ auditResult.success_count = 1
    /\ auditResult.failure_count = 2

(***************************************************************************)
(* Claims on the scan's device loop                                        *)
(***************************************************************************)

\* C16: whatever fails while one device of a scan is processed, no selected
\* device is left unprocessed and the scan returns its summary.
C16_ScanIsolatesDevices ==
    lastOp.op = "run_topology_scan" =>
        /\ lastOp.devices_left = 0
        /\ lastOp.returned

\* ---------------------------------------------------------------------
\* NetworkDeviceDriver / MikroTikDriver: the session life cycle
\* ---------------------------------------------------------------------

MaxSessions == 2
MaxSent     == 2

\* The driver object's session fields.
Driver(is_connected, handle) == [connected |-> is_connected, net_connect |-> handle]

\* The device's side: the sessions open on it and how many it has opened.
Device(sessions, seq) == [sessions |-> sessions, seq |-> seq]

\* What ConnectHandler(...) can do.
ConnectOutcomes == {"ok", "timeout", "auth", "other"}

\* MikroTikDriver.connect: on success the handle is stored and connected is
\* set; the three except branches raise ConnectionError and assign nothing.
Connect(drv, dev, outcome) ==
    IF outcome = "ok"
    THEN [drv    |-> Driver(TRUE, dev.seq + 1),
          dev    |-> Device(dev.sessions \cup {dev.seq + 1}, dev.seq + 1),
          raised |-> None]
    ELSE [drv |-> drv, dev |-> dev, raised |-> "ConnectionError"]

\* disconnect without the finally clause: a failing close keeps the handle.
DisconnectNoFinally(drv, dev, close_raises) ==
    IF drv.net_connect # NullInt /\ close_raises
    THEN [drv |-> Driver(FALSE, drv.net_connect), dev |-> dev, raised |-> None]
    ELSE [drv    |-> Driver(FALSE, NullInt),
          dev    |-> Device(dev.sessions \ {drv.net_connect}, dev.seq),
          raised |-> None]

\* MikroTikDriver.disconnect: closes the session when a handle is held (a
\* failing close is logged), always drops the handle, clears connected.
Disconnect(drv, dev, close_raises) ==
    IF drv.net_connect # NullInt
    THEN [drv    |-> Driver(FALSE, NullInt),
          dev    |-> IF close_raises THEN dev
                     ELSE Device(dev.sessions \ {drv.net_connect}, dev.seq),
          raised |-> None]
    ELSE [drv |-> Driver(FALSE, NullInt), dev |-> dev, raised |-> None]

\* NetworkDeviceDriver.__exit__: disconnect, any Exception of it logged;
\* returns False, so the block's exception keeps propagating.
Exit(drv, dev, close_raises, exc) ==
    LET d == Disconnect(drv, dev, close_raises)
    IN  [drv |-> d.drv, dev |-> d.dev, suppress |-> FALSE, exc |-> exc]

\* A guard that lets every call through.
AssertConnectedSkipped(drv) == None

\* NetworkDeviceDriver._assert_connected.
AssertConnected(drv) == IF ~drv.connected THEN "RuntimeError" ELSE None

\* The four operations and the command each one sends.
Operations == {"get_config_snapshot", "get_arp_table", "get_mac_table", "get_lldp_neighbors"}

CommandOf(operation) ==
    CASE operation = "get_config_snapshot" -> "/export verbose"
      [] operation = "get_arp_table"       -> "/ip arp print terse"
      [] operation = "get_mac_table"       -> "/interface bridge host print terse"
      [] operation = "get_lldp_neighbors"  -> "/ip neighbor print detail"

\* get_config_snapshot / get_arp_table / get_mac_table / get_lldp_neighbors:
\* _assert_connected first, then send_command on the handle.
Operation(drv, sent, operation, send_raises) ==
    IF AssertConnected(drv) # None
    THEN [sent |-> sent, raised |-> AssertConnected(drv)]
    ELSE [sent   |-> Append(sent, CommandOf(operation)),
          raised |-> IF send_raises THEN "SendError" ELSE None]

ThisDriver == Driver(connected, net_connect)
ThisDevice == Device(deviceSessions, sessionSeq)

SetDriver(drv, dev) ==
    /\ connected' = drv.connected
    /\ net_connect' = drv.net_connect
    /\ deviceSessions' = dev.sessions
    /\ sessionSeq' = dev.seq

DriverInit ==
    /\ topology_nodes = {}
    /\ clock = 1
    /\ incidents = <<>>
    /\ incident_seq = 0
    /\ AuditIdle
    /\ DiffIdle
    /\ DriverIdle
    /\ inventory_devices = InventoryRows
    /\ WebIdle
    /\ lastOp = [op |-> "init"]

\* driver.connect() called directly.
DriverConnect ==
    /\ sessionSeq < MaxSessions
    /\ \E outcome \in ConnectOutcomes :
        \E r \in {Connect(ThisDriver, ThisDevice, outcome)} :
            /\ SetDriver(r.drv, r.dev)
            /\ lastOp' = [op |-> "connect", raised |-> r.raised]
    /\ UNCHANGED <<topoVars, storeVars, auditVars, diffVars, inWith, sentCommands, inventory_devices, webVars>>

\* driver.disconnect() called directly.
DriverDisconnect ==
    /\ \E close_raises \in BOOLEAN :
        \E r \in {Disconnect(ThisDriver, ThisDevice, close_raises)} :
            /\ SetDriver(r.drv, r.dev)
            /\ lastOp' = [op |-> "disconnect", raised |-> r.raised]
    /\ UNCHANGED <<topoVars, storeVars, auditVars, diffVars, inWith, sentCommands, inventory_devices, webVars>>

\* `with driver:` entered: __enter__ connects; when connect raises the block
\* is not entered and __exit__ does not run.
EnterWith ==
    /\ ~inWith
    /\ sessionSeq < MaxSessions
    /\ \E outcome \in ConnectOutcomes :
        \E r \in {Connect(ThisDriver, ThisDevice, outcome)} :
            /\ SetDriver(r.drv, r.dev)
            /\ inWith' = (r.raised = None)
            /\ lastOp' = [op |-> "enter_with", raised |-> r.raised]
    /\ UNCHANGED <<topoVars, storeVars, auditVars, diffVars, sentCommands, inventory_devices, webVars>>

\* One of the four operations, inside a with block or outside. Inside the
\* block an exception the block does not catch leaves it through __exit__.
DriverOperation ==
    /\ Len(sentCommands) < MaxSent
    /\ \E operation \in Operations, send_raises, caught, close_raises \in BOOLEAN :
        \E r \in {Operation(ThisDriver, sentCommands, operation, send_raises)} :
            LET leaves == inWith /\ r.raised # None /\ ~caught
                x      == Exit(ThisDriver, ThisDevice, close_raises, r.raised)
            IN  /\ sentCommands' = r.sent
                /\ IF leaves
                   THEN SetDriver(x.drv, x.dev) /\ inWith' = FALSE
                   ELSE UNCHANGED <<connected, net_connect, deviceSessions, sessionSeq, inWith>>
                /\ lastOp' = [op            |-> "operation",
                              call          |-> operation,
                              was_connected |-> connected,
                              raised        |-> r.raised,
                              left_with     |-> leaves,
                              held          |-> net_connect,
                              closed        |-> leaves /\ ~close_raises,
                              propagated    |-> leaves /\ ~x.suppress]
    /\ UNCHANGED <<topoVars, storeVars, auditVars, diffVars, inventory_devices, webVars>>

\* The with block ends normally: __exit__(None, None, None).
ExitWith ==
    /\ inWith
    /\ \E close_raises \in BOOLEAN :
        \E x \in {Exit(ThisDriver, ThisDevice, close_raises, None)} :
            /\ SetDriver(x.drv, x.dev)
            /\ inWith' = FALSE
            /\ lastOp' = [op         |-> "exit_with",
                          raised     |-> None,
                          left_with  |-> TRUE,
                          held       |-> net_connect,
                          closed     |-> ~close_raises,
                          propagated |-> FALSE]
    /\ UNCHANGED <<topoVars, storeVars, auditVars, diffVars, sentCommands, inventory_devices, webVars>>

DriverNext == DriverConnect \/ DriverDisconnect \/ EnterWith \/ DriverOperation \/ ExitWith

SpecDriver == DriverInit /\ [][DriverNext]_vars

\* ---------------------------------------------------------------------
\* Claims on the driver session
\* ---------------------------------------------------------------------

LeftWith == lastOp.op \in {"operation", "exit_with"} /\ lastOp.left_with

\* After a with block is left, by its end or by an exception.
C17_State ==
    LeftWith =>
        /\ ~connected
        /\ net_connect = NullInt
        /\ ~inWith
        /\ lastOp.closed => lastOp.held \notin deviceSessions
        /\ lastOp.propagated = (lastOp.raised # None)

\* disconnect never raises, leaves the driver released, and changes nothing
\* on a driver that holds no session.
C17_Step ==
    lastOp'.op = "disconnect" =>
        /\ lastOp'.raised = None
        /\ ~connected' /\ net_connect' = NullInt
        /\ (~connected /\ net_connect = NullInt) => UNCHANGED driverVars

\* C17: whenever a `with driver:` block is left, normally or by an
\* exception, disconnect has run, connected is false and no session handle
\* remains, and the exception still propagates; disconnect called again, or
\* on a driver that never connected, changes nothing and raises nothing.
C17_SessionAlwaysReleased == [](C17_State) /\ [][C17_Step]_vars

\* A with block left by an exception of a sent command, whose session close
\* also failed: the driver is released all the same.
C17_Witness ==
    /\ lastOp.op = "operation"
    /\ lastOp.left_with
    /\ lastOp.raised = "SendError"
    /\ lastOp.held # NullInt
    /\ ~lastOp.closed
    /\ ~connected
    /\ net_connect = NullInt

\* C18: each of the four driver operations called while the session is not
\* open fails with the not-connected error, sends no command and leaves the
\* driver's state as it was.
C18_NotConnectedFailsCleanly ==
    [][(lastOp'.op = "operation" /\ ~connected) =>
            /\ lastOp'.raised = "RuntimeError"
            /\ sentCommands' = sentCommands
            /\ connected' = connected
            /\ net_connect' = net_connect
            /\ deviceSessions' = deviceSessions
            /\ sessionSeq' = sessionSeq]_vars

\* An operation refused after a session was opened and closed again.
C18_Witness ==
    /\ lastOp.op = "operation"
    /\ ~lastOp.was_connected
    /\ lastOp.raised = "RuntimeError"
    /\ sessionSeq > 0
    /\ sentCommands = <<>>

\* ---------------------------------------------------------------------
\* Table inventory_devices (devices_repository)
\* ---------------------------------------------------------------------

\* not text.strip(), on the texts the model passes
StripIsEmpty(text) == text \in {"", " "}

\* The first two tests of create_inventory_device.
ValidateCreate(args) ==
    IF StripIsEmpty(args.customer_id) \/ StripIsEmpty(args.device_id) \/ StripIsEmpty(args.vendor) \/ StripIsEmpty(args.host)
    THEN "required"
    ELSE IF args.port <= 0 \/ args.port > 65535 THEN "port" ELSE "valid"

\* SELECT 1 ... WHERE customer_id = ? AND device_id = ?
ByDevice(rows, args) == \E row \in rows : row.customer_id = args.customer_id /\ row.device_id = args.device_id

\* SELECT 1 ... WHERE host = ? AND port = ?
ByHost(rows, args) == \E row \in rows : row.host = args.host /\ row.port = args.port

\* create_inventory_device up to its INSERT: the reason it returns False
\* for, or "pass".
CreateChecks(rows, args) ==
    IF ValidateCreate(args) # "valid" THEN ValidateCreate(args)
    ELSE IF ByDevice(rows, args) THEN "duplicate_device"
    ELSE IF ByHost(rows, args) THEN "duplicate_host"
    ELSE "pass"

\* An INSERT into a table without the two UNIQUE constraints.
InsertRowUnconstrained(rows, args) == [rows |-> rows \cup {args}, raised |-> None]

\* The INSERT under UNIQUE(customer_id, device_id) and UNIQUE(host, port):
\* sqlite3.IntegrityError and no row when either is violated.
InsertRow(rows, args) ==
    IF ByDevice(rows, args) \/ ByHost(rows, args)
    THEN [rows |-> rows, raised |-> "IntegrityError"]
    ELSE [rows |-> rows \cup {args}, raised |-> None]

\* create_inventory_device run without another writer in between.
CreateInventoryDeviceResult(rows, args) ==
    IF CreateChecks(rows, args) # "pass"
    THEN [rows |-> rows, ok |-> FALSE, message |-> CreateChecks(rows, args)]
    ELSE [rows |-> InsertRow(rows, args).rows, ok |-> TRUE, message |-> "created"]

\* delete_inventory_device: DELETE ... WHERE customer_id = ? AND device_id = ?
DeleteInventoryDeviceRows(rows, customer_id, device_id) == {row \in rows : ~(row.customer_id = customer_id /\ row.device_id = device_id)}

\* The creates drawn beside the incident table: the rows of the start and
\* one more device.
StoreCreateArgs == InventoryRows \cup {InventoryRow("c1", "dX", "mikrotik", "10.0.0.9", 22)}

\* ---------------------------------------------------------------------
\* The incident table under pushes, inventory changes and the dashboard
\* ---------------------------------------------------------------------

MaxSeq == 3

\* Payloads handed to push_incident: a diff dictionary, and one holding a
\* value json.dumps has no encoder for (TypeError).
Payloads == {"diff", "unserialisable"}

JsonDumpsRaises(payload) == payload = "unserialisable"

\* Devices incidents are pushed for: one registered, one that is not.
PushDevices == {"d1", "dX"}

\* delete_orphan_incidents(device_ids): removes the incidents whose
\* device_id is not among device_ids.
RowOfRegistered(row, device_ids) == row.device_id \in device_ids

DeleteOrphanIncidents(rows, device_ids) == SelectSeq(rows, LAMBDA row : RowOfRegistered(row, device_ids))

\* get_overview_data up to the counts: reads the inventory, then deletes
\* the orphan incidents. early_error is an exception of the inventory reads.
GetOverviewData(rows, device_ids, early_error) ==
    IF early_error
    THEN [rows |-> rows, raised |-> TRUE]
    ELSE [rows |-> DeleteOrphanIncidents(rows, device_ids), raised |-> FALSE]

\* Text is a sequence of characters. NoText stands for None and for "":
\* the truth tests of the code (`if not token`) do not tell them apart.
NoText == <<>>

IsSpace(ch) == ch = " "

RECURSIVE LStrip(_)
LStrip(text) == IF text # <<>> /\ IsSpace(Head(text)) THEN LStrip(Tail(text)) ELSE text

RECURSIVE RStrip(_)
RStrip(text) == IF text # <<>> /\ IsSpace(text[Len(text)]) THEN RStrip(SubSeq(text, 1, Len(text) - 1)) ELSE text

\* str.strip()
Strip(text) == RStrip(LStrip(text))

TokenS == <<"s", "3">>
TokenX == <<"x">>

\* current_app.config.get("API_STATIC_TOKEN")
ConfiguredTokens == {NoText, TokenS}

\* request.form.get("admin_token", "")
FormTokens == {NoText, TokenS, <<" ">> \o TokenS \o <<" ">>, TokenX}

\* request.form.get("confirm")
FormConfirms == {"yes", "no", None}

\* _check_admin_token
CheckAdminToken(cfg_token, form_token) ==
    IF cfg_token = NoText THEN TRUE ELSE form_token = cfg_token

\* _inventory_device_ids: the device ids of the inventory, the empty set
\* when reading the inventory raises.
InventoryDeviceIds(device_ids, read_error) == IF read_error THEN {} ELSE device_ids

\* purge_orphans: the token and the confirmation are checked first.
PurgeOrphans(rows, device_ids, token_ok, confirm) ==
    IF ~token_ok \/ ~confirm
    THEN [rows |-> rows, purged |-> FALSE]
    ELSE [rows |-> DeleteOrphanIncidents(rows, device_ids), purged |-> TRUE]

StoreInit ==
    /\ topology_nodes = <<>>
    /\ clock = 1
    /\ incidents = <<>>
    /\ incident_seq = 0
    /\ lastOp = [op |-> "init"]
    /\ AuditIdle
    /\ DiffIdle
    /\ DriverIdle
    /\ inventory_devices = InventoryRows
    /\ WebIdle

StoreIdleRest == UNCHANGED <<topoVars, auditVars, diffVars, driverVars, webVars>>

\* incident_engine.push_incident(...)
PushIncidentCall ==
    /\ incident_seq < MaxSeq
    /\ Len(incidents) < MaxIncidents
    /\ \E device_id \in PushDevices, payload \in Payloads, store_error \in BOOLEAN :
        \E out \in {PushIncident([rows |-> incidents, seq |-> incident_seq], "c1", device_id, "HIGH", "config_drift", payload, store_error \/ JsonDumpsRaises(payload))} :
            /\ incidents' = out.store.rows
            /\ incident_seq' = out.store.seq
            /\ lastOp' = [op |-> "push_incident", returned |-> out.id, fails |-> store_error \/ JsonDumpsRaises(payload)]
    /\ UNCHANGED inventory_devices
    /\ StoreIdleRest

\* delete_inventory_device(customer_id, device_id)
DeleteInventoryDevice ==
    /\ \E row \in inventory_devices :
        /\ inventory_devices' = DeleteInventoryDeviceRows(inventory_devices, row.customer_id, row.device_id)
        /\ lastOp' = [op |-> "delete_inventory_device", device_id |-> row.device_id]
    /\ UNCHANGED storeVars
    /\ StoreIdleRest

\* create_inventory_device(...) by a single caller
CreateInventoryDevice ==
    /\ \E args \in StoreCreateArgs :
        \E out \in {CreateInventoryDeviceResult(inventory_devices, args)} :
            /\ inventory_devices' = out.rows
            /\ lastOp' = [op |-> "create_inventory_device", device_id |-> args.device_id, ok |-> out.ok]
    /\ UNCHANGED storeVars
    /\ StoreIdleRest

\* POST /admin/orphan-incidents/purge
PurgeOrphansCall ==
    /\ \E cfg_token \in ConfiguredTokens, admin_token \in FormTokens, confirm \in FormConfirms, read_error \in BOOLEAN :
        \E out \in {PurgeOrphans(incidents, InventoryDeviceIds(DeviceIds(inventory_devices), read_error), CheckAdminToken(cfg_token, Strip(admin_token)), confirm = "yes")} :
            /\ incidents' = out.rows
            /\ lastOp' = [op |-> "purge_orphans", purged |-> out.purged, cfg_token |-> cfg_token, admin_token |-> admin_token, confirm |-> confirm]
    /\ UNCHANGED <<incident_seq, inventory_devices>>
    /\ StoreIdleRest

\* GET /health/overview and GET /health/api/overview
Overview ==
    /\ \E early_error \in BOOLEAN :
        \E out \in {GetOverviewData(incidents, DeviceIds(inventory_devices), early_error)} :
            /\ incidents' = out.rows
            /\ lastOp' = [op |-> "get_overview_data", raised |-> out.raised]
    /\ UNCHANGED <<incident_seq, inventory_devices>>
    /\ StoreIdleRest

\* One turn of _sse_generator's loop: get_overview_data, any exception of
\* it answered with an empty event.
SseEvent ==
    /\ \E early_error \in BOOLEAN :
        \E out \in {GetOverviewData(incidents, DeviceIds(inventory_devices), early_error)} :
            /\ incidents' = out.rows
            /\ lastOp' = [op |-> "sse_event", event |-> IF out.raised THEN "{}" ELSE "kpis"]
    /\ UNCHANGED <<incident_seq, inventory_devices>>
    /\ StoreIdleRest

StoreNext ==
    \/ PushIncidentCall
    \/ DeleteInventoryDevice
    \/ CreateInventoryDevice
    \/ PurgeOrphansCall
    \/ Overview
    \/ SseEvent

SpecStore == StoreInit /\ [][StoreNext]_vars

\* ---------------------------------------------------------------------
\* Claims on the incident table
\* ---------------------------------------------------------------------

RowIds(rows) == {rows[i].id : i \in 1..Len(rows)}

\* Every id the table has handed out is at most the sequence value.
C19_State == \A id \in RowIds(incidents) : id <= incident_seq

C19_Step ==
    lastOp'.op = "push_incident" =>
        /\ lastOp'.fails <=> lastOp'.returned = NullInt
        /\ IF lastOp'.returned # NullInt
           THEN /\ lastOp'.returned > incident_seq
                /\ \A id \in RowIds(incidents) : lastOp'.returned > id
                /\ incidents' = Append(incidents, incidents'[Len(incidents')])
                /\ incidents'[Len(incidents')].id = lastOp'.returned
                /\ incidents'[Len(incidents')].status = "new"
           ELSE incidents' = incidents

\* C19: a successful push_incident returns an id strictly greater than
\* every id the store returned before, also after incidents were deleted,
\* and its row has status 'new'; a failing push (store error or payload
\* that cannot be serialised) returns no id and adds no row.
C19_IdsStrictlyIncrease == [](C19_State) /\ [][C19_Step]_vars

\* A push after the row with id 1 was deleted: the new row has id 2.
C19_Witness ==
    /\ lastOp.op = "push_incident"
    /\ lastOp.returned = 2
    /\ RowIds(incidents) = {2}

Kept(row, rows) == \E j \in 1..Len(rows) : rows[j] = row

\* C20: a pushed incident row is never removed or rewritten by an audit, a
\* topology scan or a read operation such as the health overview or the
\* SSE stream; only the admin purge removes rows.
C20_OnlyPurgeRemovesIncidents ==
    [][lastOp'.op # "purge_orphans" =>
            \A i \in 1..Len(incidents) : Kept(incidents[i], incidents')]_vars

\* The purge was asked for with a matching token (or none configured) and
\* the confirmation.
PurgeAllowed(op) ==
    /\ op.cfg_token = NoText \/ Strip(op.admin_token) = op.cfg_token
    /\ op.confirm = "yes"

Removed(rows, after) == {rows[i] : i \in {j \in 1..Len(rows) : ~Kept(rows[j], after)}}

\* Without the token or without the confirmation the purge deletes nothing.
C21_Gate ==
    lastOp'.op = "purge_orphans" =>
        /\ lastOp'.purged <=> PurgeAllowed(lastOp')
        /\ ~PurgeAllowed(lastOp') => incidents' = incidents

\* What the purge deletes are incidents of devices not in the inventory.
C21_OnlyOrphans ==
    lastOp'.op = "purge_orphans" =>
        \A row \in Removed(incidents, incidents') : row.device_id \notin DeviceIds(inventory_devices)

\* C21: the purge deletes incidents only when the submitted admin_token
\* matches the configured static token (or none is configured) and confirm
\* is 'yes'; otherwise nothing is deleted; and when it deletes, only
\* incidents whose device_id is not in the inventory are removed.
C21_PurgeGuardedAndOrphansOnly == [][C21_Gate /\ C21_OnlyOrphans]_vars

\* ---------------------------------------------------------------------
\* The HTTP surface: token-protected routes
\* ---------------------------------------------------------------------

\* request.headers.get("X-API-Token")
HeaderTokens == {NoText, TokenS, TokenX}

\* token_required(f): the decorated handler runs only when the function
\* reaches `return f(*args, **kwargs)`.
TokenRequired(valid_token, token) ==
    IF token = NoText
    THEN [status |-> 401, handler_ran |-> FALSE]
    ELSE IF valid_token # NoText /\ token # valid_token
         THEN [status |-> 403, handler_ran |-> FALSE]
         ELSE [status |-> 200, handler_ran |-> TRUE]

WebInit ==
    /\ topology_nodes = <<>>
    /\ clock = 1
    /\ incidents = <<>>
    /\ incident_seq = 0
    /\ lastOp = [op |-> "init"]
    /\ AuditIdle
    /\ DiffIdle
    /\ DriverIdle
    /\ inventory_devices = InventoryRows
    /\ WebIdle

\* A request to a route wrapped in token_required (GET /auth/verify, the
\* remediation API).
TokenProtectedRequest ==
    /\ \E valid_token \in ConfiguredTokens, token \in HeaderTokens :
        \E out \in {TokenRequired(valid_token, token)} :
            lastOp' = [op |-> "token_request", valid_token |-> valid_token, token |-> token, status |-> out.status, handler_ran |-> out.handler_ran]
    /\ UNCHANGED <<topoVars, storeVars, auditVars, diffVars, driverVars, inventory_devices, webVars>>

MaxPending == 2

\* Arguments of create_inventory_device calls.
CreateArgs == {InventoryRow(c, d, "mikrotik", h, p) : c \in {"c1", " "}, d \in {"d1", "d8", "d9"}, h \in {"10.0.0.1", "10.0.0.8", "10.0.0.9"}, p \in {22, 0, 65536}}

RemoveAt(seq, i) == SubSeq(seq, 1, i - 1) \o SubSeq(seq, i + 1, Len(seq))

\* create_inventory_device, first part: the two tests of the arguments and
\* the two SELECTs. A call that passes them goes on to its INSERT.
CreateBegin ==
    /\ Len(pending_creates) < MaxPending
    /\ \E args \in CreateArgs :
        \E checks \in {CreateChecks(inventory_devices, args)} :
            /\ pending_creates' = IF checks = "pass" THEN Append(pending_creates, args) ELSE pending_creates
            /\ lastOp' = [op |-> "create_inventory_device", phase |-> "checks", args |-> args, outcome |-> checks]
    /\ UNCHANGED <<topoVars, storeVars, auditVars, diffVars, driverVars, inventory_devices, vault_records, sseVars, vault_file>>

\* create_inventory_device, second part: the INSERT and the commit, after
\* whatever other writers did in between.
CreateFinish ==
    /\ \E i \in 1..Len(pending_creates) :
        \E out \in {InsertRow(inventory_devices, pending_creates[i])} :
            /\ inventory_devices' = out.rows
            /\ pending_creates' = RemoveAt(pending_creates, i)
            /\ lastOp' = [op |-> "create_inventory_device", phase |-> "insert", args |-> pending_creates[i], outcome |-> out.raised]
    /\ UNCHANGED <<topoVars, storeVars, auditVars, diffVars, driverVars, vault_records, sseVars, vault_file>>

\* str.strip() on the form texts the model submits.
StripField(text) ==
    CASE text = " d9 " -> "d9"
      [] text = " "    -> ""
      [] OTHER         -> text

\* _parse_port(value, default): int(value), the default when int raises.
ParsePort(value, default) ==
    CASE value = "22"    -> 22
      [] value = "65536" -> 65536
      [] OTHER           -> default

\* What VaultManager(...) and vault.upsert_credentials(...) can do inside
\* save_device_credentials: store the record, raise MasterKeyNotFoundError,
\* raise another VaultError, or raise OSError while the vault file is
\* read or written (encrypt_payload turns only TypeError and ValueError
\* into VaultError).
VaultOutcomes == {"saved", "MasterKeyNotFoundError", "VaultError", "OSError"}

\* save_device_credentials: (False, message) for blank credentials and for
\* the two exceptions it catches; any other exception leaves it.
SaveDeviceCredentials(records, customer_id, device_id, username, password, vault_outcome) ==
    IF StripIsEmpty(username) \/ password = ""
    THEN [records |-> records, ok |-> FALSE, raised |-> None]
    ELSE IF vault_outcome = "saved"
    THEN [records |-> records \cup {<<customer_id, device_id>>}, ok |-> TRUE, raised |-> None]
    ELSE IF vault_outcome \in {"MasterKeyNotFoundError", "VaultError"}
    THEN [records |-> records, ok |-> FALSE, raised |-> None]
    ELSE [records |-> records, ok |-> FALSE, raised |-> vault_outcome]

\* The POST branch of onboard_device: create the row, save the
\* credentials, delete the row again when save_device_credentials
\* returns False.
OnboardDeviceResult(rows, records, form, vault_outcome) ==
    LET args    == InventoryRow(StripField(form.customer), StripField(form.device), StripField(form.vendor), StripField(form.host), ParsePort(form.porta, -1))
        created == CreateInventoryDeviceResult(rows, args)
        cred    == SaveDeviceCredentials(records, args.customer_id, args.device_id, StripField(form.username), form.password, vault_outcome)
    IN  IF ~created.ok
        THEN [rows |-> rows, records |-> records, args |-> args, created |-> FALSE, cred_ok |-> FALSE, raised |-> None]
        ELSE IF cred.raised # None
        THEN [rows |-> created.rows, records |-> cred.records, args |-> args, created |-> TRUE, cred_ok |-> FALSE, raised |-> cred.raised]
        ELSE IF ~cred.ok
        THEN [rows |-> DeleteInventoryDeviceRows(created.rows, args.customer_id, args.device_id), records |-> cred.records, args |-> args, created |-> TRUE, cred_ok |-> FALSE, raised |-> None]
        ELSE [rows |-> created.rows, records |-> cred.records, args |-> args, created |-> TRUE, cred_ok |-> TRUE, raised |-> None]

\* The forms posted to /devices/onboard.
OnboardForms == [customer : {"c1"}, device : {"d1", " d9 ", " "}, vendor : {"mikrotik"}, host : {"10.0.0.9"}, porta : {"22", "abc"}, username : {"admin", " "}, password : {"pw", ""}]

\* POST /devices/onboard
OnboardDevice ==
    /\ \E form \in OnboardForms, vault_outcome \in VaultOutcomes :
        \E out \in {OnboardDeviceResult(inventory_devices, vault_records, form, vault_outcome)} :
            /\ inventory_devices' = out.rows
            /\ vault_records' = out.records
            /\ lastOp' = [op |-> "onboard_device", args |-> out.args, created |-> out.created, cred_ok |-> out.cred_ok, raised |-> out.raised]
    /\ UNCHANGED <<topoVars, storeVars, auditVars, diffVars, driverVars, pending_creates, sseVars, vault_file>>

WebNext ==
    \/ TokenProtectedRequest
    \/ CreateBegin
    \/ CreateFinish
    \/ OnboardDevice

SpecWeb == WebInit /\ [][WebNext]_vars

\* ---------------------------------------------------------------------
\* Claims on the HTTP surface
\* ---------------------------------------------------------------------

\* C22: with a static token configured, a request without the token header
\* gets 401 and one whose header differs from the token gets 403, the
\* handler not run in both cases; with no static token configured every
\* request is allowed, also one without the token header.
C22_TokenGate ==
    lastOp.op = "token_request" =>
        IF lastOp.valid_token # NoText
        THEN /\ lastOp.token = NoText => lastOp.status = 401 /\ ~lastOp.handler_ran
             /\ lastOp.token \notin {NoText, lastOp.valid_token} => lastOp.status = 403 /\ ~lastOp.handler_ran
             /\ lastOp.token = lastOp.valid_token => lastOp.handler_ran
        ELSE lastOp.handler_ran

\* No two rows share (customer_id, device_id), no two share (host, port).
UniqueRows(rows) ==
    \A r1, r2 \in rows :
        /\ (r1.customer_id = r2.customer_id /\ r1.device_id = r2.device_id) => r1 = r2
        /\ (r1.host = r2.host /\ r1.port = r2.port) => r1 = r2

\* The create would break a uniqueness, has an empty required field or a
\* port outside 1..65535.
Unacceptable(rows, args) ==
    \/ \E row \in rows : row.customer_id = args.customer_id /\ row.device_id = args.device_id
    \/ \E row \in rows : row.host = args.host /\ row.port = args.port
    \/ \E f \in {args.customer_id, args.device_id, args.vendor, args.host} : f \in {"", " "}
    \/ args.port < 1 \/ args.port > 65535

C24_Step ==
    lastOp'.op = "create_inventory_device" =>
        /\ Unacceptable(inventory_devices, lastOp'.args) => inventory_devices' = inventory_devices
        /\ inventory_devices' \in {inventory_devices, inventory_devices \cup {lastOp'.args}}

\* C24: after any sequence or interleaving of create_inventory_device
\* calls no two inventory rows share (customer_id, device_id) and no two
\* share (host, port); a create that would break either uniqueness, or has
\* an empty required field or a port outside 1..65535, adds no row and
\* leaves the table unchanged.
C24_InventoryUnique == [](UniqueRows(inventory_devices)) /\ [][C24_Step]_vars

\* Two creates of the same host and port both passed their SELECTs; the
\* second INSERT was refused by the table.
C24_Witness ==
    /\ lastOp.op = "create_inventory_device"
    /\ lastOp.phase = "insert"
    /\ lastOp.outcome = "IntegrityError"
    /\ lastOp.args \notin inventory_devices
    /\ \E row \in inventory_devices : row.host = lastOp.args.host /\ row.device_id # lastOp.args.device_id

HasRow(rows, args) == \E row \in rows : row.customer_id = args.customer_id /\ row.device_id = args.device_id

C23_Step ==
    lastOp'.op = "onboard_device" =>
        LET args      == lastOp'.args
            key       == <<args.customer_id, args.device_id>>
            rowByThis == ~HasRow(inventory_devices, args) /\ HasRow(inventory_devices', args)
            credSaved == lastOp'.cred_ok
        IN  /\ rowByThis <=> credSaved
            /\ credSaved => key \in vault_records'
            /\ ~credSaved => vault_records' = vault_records
            /\ ~lastOp'.created => inventory_devices' = inventory_devices
            /\ inventory_devices \subseteq inventory_devices'

\* C23: after POST /devices/onboard finishes in any way, the inventory
\* row this request created exists if and only if its credential record
\* was saved: a failed save rolls the row back, and a refused insert
\* writes no credential and deletes no existing row.
C23_OnboardAtomic == [][C23_Step]_vars

\* ---------------------------------------------------------------------
\* GET /health/stream: the server-sent event stream
\* ---------------------------------------------------------------------

SSE_MIN_SECONDS     == 5
SSE_MAX_SECONDS     == 300
SSE_DEFAULT_SECONDS == 30

MaxWindow == 5

\* request.args.get("interval", SSE_DEFAULT_SECONDS)
IntervalParams == {None, "1", "60", "120", "1000", "abc"}

\* stream(): int(...) of the parameter, the default when it is absent or
\* int raises, then clamped to SSE_MIN_SECONDS..SSE_MAX_SECONDS.
StreamInterval(param) ==
    LET parsed == CASE param = "1"    -> 1
                    [] param = "60"   -> 60
                    [] param = "120"  -> 120
                    [] param = "1000" -> 1000
                    [] OTHER          -> SSE_DEFAULT_SECONDS
    IN  Max(SSE_MIN_SECONDS, Min(SSE_MAX_SECONDS, parsed))

RetryBlock     == "retry: 5000"
DataBlock      == "data: <kpis>"
EmptyBlock     == "data: {}"
HeartbeatBlock == ": heartbeat"

\* The stream after one more block: the window keeps the last MaxWindow.
Yield(blocks, block) ==
    IF Len(blocks) < MaxWindow THEN Append(blocks, block) ELSE Append(Tail(blocks), block)

\* A generator that ends at the first failure of the KPI computation.
AfterComputeStopping(fails) == IF fails THEN [pc |-> "closed", block |-> EmptyBlock] ELSE [pc |-> "data_sent", block |-> DataBlock]

\* The try of the loop up to its first yield: get_overview_data and
\* json.dumps, then the data block; the empty data block from the except.
AfterCompute(fails) == IF fails THEN [pc |-> "empty_sent", block |-> EmptyBlock] ELSE [pc |-> "data_sent", block |-> DataBlock]

SseEmit(block) ==
    /\ sseBlocks' = Yield(sseBlocks, block)
    /\ sseFirst' = IF sseFirst = None THEN block ELSE sseFirst
    /\ sseRetries' = IF block = RetryBlock THEN Min(sseRetries + 1, 2) ELSE sseRetries

SseRest == UNCHANGED <<topoVars, incident_seq, auditVars, diffVars, driverVars, inventory_devices, pending_creates, vault_records, vault_file>>

\* stream(): the generator is created, nothing is sent yet.
Stream ==
    /\ ssePc = "closed"
    /\ sseFirst = None
    /\ \E param \in IntervalParams :
        /\ sseInterval' = StreamInterval(param)
        /\ lastOp' = [op |-> "stream", interval |-> StreamInterval(param)]
    /\ ssePc' = "start"
    /\ UNCHANGED <<incidents, sseBlocks, sseFirst, sseRetries>>
    /\ SseRest

\* yield "retry: 5000\n\n"
SseRetry ==
    /\ ssePc = "start"
    /\ SseEmit(RetryBlock)
    /\ ssePc' = "loop"
    /\ lastOp' = [op |-> "sse_retry"]
    /\ UNCHANGED <<incidents, sseInterval>>
    /\ SseRest

\* get_overview_data, json.dumps and the data block, or the except branch
\* and its empty data block.
SseData ==
    /\ ssePc = "loop"
    /\ \E early_error, dumps_error \in BOOLEAN :
        \E kpis \in {GetOverviewData(incidents, DeviceIds(inventory_devices), early_error)} :
            \E out \in {AfterCompute(kpis.raised \/ dumps_error)} :
                /\ incidents' = kpis.rows
                /\ SseEmit(out.block)
                /\ ssePc' = out.pc
                /\ lastOp' = [op |-> "sse_data", failed |-> kpis.raised \/ dumps_error]
    /\ UNCHANGED sseInterval
    /\ SseRest

\* yield ": heartbeat\n\n", in the try or in the except
SseHeartbeat ==
    /\ ssePc \in {"data_sent", "empty_sent"}
    /\ SseEmit(HeartbeatBlock)
    /\ ssePc' = "sleep"
    /\ lastOp' = [op |-> "sse_heartbeat"]
    /\ UNCHANGED <<incidents, sseInterval>>
    /\ SseRest

\* time.sleep(interval)
SseSleep ==
    /\ ssePc = "sleep"
    /\ ssePc' = "loop"
    /\ lastOp' = [op |-> "sse_sleep", seconds |-> sseInterval]
    /\ UNCHANGED <<incidents, sseBlocks, sseFirst, sseRetries, sseInterval>>
    /\ SseRest

SseStep == SseRetry \/ SseData \/ SseHeartbeat \/ SseSleep

SseNext ==
    \/ Stream
    \/ SseRetry
    \/ SseData
    \/ SseHeartbeat
    \/ SseSleep

SpecSse == WebInit /\ [][SseNext]_vars /\ WF_vars(SseStep)

\* ---------------------------------------------------------------------
\* Claims on the event stream
\* ---------------------------------------------------------------------

IsData(block) == block \in {DataBlock, EmptyBlock}

\* In the blocks sent, a data block follows the retry block or a
\* heartbeat, a heartbeat follows a data block, and retry follows nothing.
C25_Framing ==
    /\ sseFirst \in {None, RetryBlock}
    /\ sseRetries <= 1
    /\ \A i \in 1..(Len(sseBlocks) - 1) :
        /\ sseBlocks[i] = RetryBlock => IsData(sseBlocks[i + 1])
        /\ IsData(sseBlocks[i]) => sseBlocks[i + 1] = HeartbeatBlock
        /\ sseBlocks[i] = HeartbeatBlock => IsData(sseBlocks[i + 1])

\* One pair per interval: a data block is sent right after the retry block
\* or after a sleep of the interval; a failed computation sends the empty
\* data block and the generator goes on.
C25_Step ==
    /\ lastOp'.op = "sse_data" =>
        /\ lastOp.op = "sse_retry" \/ (lastOp.op = "sse_sleep" /\ lastOp.seconds = sseInterval)
        /\ lastOp'.failed => sseBlocks'[Len(sseBlocks')] = EmptyBlock
        /\ ssePc' # "closed"
    /\ lastOp'.op = "sse_sleep" => lastOp.op = "sse_heartbeat" /\ sseInterval \in SSE_MIN_SECONDS..SSE_MAX_SECONDS

\* C25: the stream sends `retry: 5000` exactly once, as its first block,
\* and after it without end one `data:` block immediately followed by one
\* `: heartbeat` block, one pair per interval; a failure while the KPI
\* bundle is computed does not end the stream or break the alternation.
C25_StreamFraming ==
    /\ [](C25_Framing)
    /\ [][C25_Step]_vars
    /\ [](ssePc # "closed" => <>(lastOp.op = "sse_data"))
    /\ [](lastOp.op = "sse_data" => <>(lastOp.op = "sse_heartbeat"))
    /\ [](lastOp.op = "sse_heartbeat" => <>(lastOp.op = "sse_data"))

\* A failed computation in the middle of the stream: the empty data block
\* stands between two heartbeats' pairs and the stream has gone on.
C25_Witness ==
    /\ Len(sseBlocks) = MaxWindow
    /\ sseBlocks[MaxWindow - 2] = EmptyBlock
    /\ sseBlocks[MaxWindow - 1] = HeartbeatBlock
    /\ sseBlocks[MaxWindow] = DataBlock

\* ---------------------------------------------------------------------
\* VaultManager: the encrypted credential file
\* ---------------------------------------------------------------------

\* SENTINEL_MASTER_KEY of the process that opens the vault.
MasterKeys == {"k1", "k2"}

CredsA == [host |-> "10.0.0.1", username |-> "admin", password |-> "s3cret", port |-> 22]
CredsB == [host |-> "10.0.0.3", username |-> "audit", password |-> "pw", port |-> 2222]
NoCreds == [host |-> "", username |-> "", password |-> "", port |-> NullInt]

\* {customer_id: {device_id: {creds}}}
VaultPayloads ==
    {EmptyDict,
     "c1" :> ("d1" :> CredsA),
     "c1" :> ("d1" :> CredsA @@ "d3" :> CredsB),
     ("c1" :> ("d1" :> CredsB)) @@ ("c2" :> ("d2" :> CredsA))}

\* json.dumps(data, ensure_ascii=False, indent=2): a JSON text of the
\* dictionary; json.loads reads a JSON text back and raises on other text.
JsonDumps(data) == [format |-> "json", value |-> data]
JsonLoads(text) == IF text.format = "json" THEN [raised |-> None, value |-> text.value] ELSE [raised |-> "JSONDecodeError", value |-> EmptyDict]

\* str.encode("utf-8") and bytes.decode("utf-8")
Utf8Encode(text) == [encoding |-> "utf-8", text |-> text]
Utf8Decode(bytes) == bytes.text

\* Fernet(key).encrypt: the plaintext enciphered under the key and signed
\* (HMAC) under the key. Fernet(key).decrypt: InvalidToken unless the
\* signature is the key's signature of the bytes that are there.
FernetEncrypt(key, plaintext) == [cipher_key |-> key, body |-> plaintext, mac_key |-> key, signed |-> plaintext]
FernetDecrypt(key, token) ==
    IF token.mac_key = key /\ token.cipher_key = key /\ token.signed = token.body
    THEN [raised |-> None, plaintext |-> token.body]
    ELSE [raised |-> "InvalidToken", plaintext |-> Utf8Encode(JsonDumps(EmptyDict))]

\* encrypt_payload: dumps, encrypt, write_bytes; a TypeError or ValueError
\* of the serialisation becomes VaultError and the file is not written.
EncryptPayload(file, key, data, dumps_raises) ==
    IF dumps_raises
    THEN [file |-> file, raised |-> "VaultError"]
    ELSE [file |-> [exists |-> TRUE, bytes |-> FernetEncrypt(key, Utf8Encode(JsonDumps(data)))], raised |-> None]

\* _decrypt_vault that hands on whatever bytes the token carries.
DecryptVaultUnchecked(file, key) ==
    IF ~file.exists THEN [raised |-> "VaultError", payload |-> EmptyDict] ELSE [raised |-> None, payload |-> Utf8Decode(file.bytes.body).value]

\* _decrypt_vault: VaultError without a file, VaultCorruptedError when
\* decrypt raises InvalidToken or the plaintext is not JSON.
DecryptVault(file, key) ==
    IF ~file.exists
    THEN [raised |-> "VaultError", payload |-> EmptyDict]
    ELSE LET decrypted == FernetDecrypt(key, file.bytes)
             loaded    == JsonLoads(Utf8Decode(decrypted.plaintext))
         IN  IF decrypted.raised # None THEN [raised |-> "VaultCorruptedError", payload |-> EmptyDict]
             ELSE IF loaded.raised # None THEN [raised |-> "VaultCorruptedError", payload |-> EmptyDict]
             ELSE [raised |-> None, payload |-> loaded.value]

\* get_credentials: _decrypt_vault, then customer and device looked up.
GetCredentials(file, key, customer_id, device_id) ==
    LET vault_data == DecryptVault(file, key)
    IN  IF vault_data.raised # None THEN [raised |-> vault_data.raised, creds |-> NoCreds]
        ELSE IF customer_id \notin DOMAIN vault_data.payload THEN [raised |-> "CredentialNotFoundError", creds |-> NoCreds]
        ELSE IF device_id \notin DOMAIN vault_data.payload[customer_id] THEN [raised |-> "CredentialNotFoundError", creds |-> NoCreds]
        ELSE [raised |-> None, creds |-> vault_data.payload[customer_id][device_id]]

\* What can happen to the bytes on disk behind the program's back: bytes
\* of the ciphertext changed, the signature changed, or the file replaced
\* by a token of the same key over text that is not JSON.
TamperKinds == {"ciphertext", "signature", "not_json"}

Tampered(token, kind) ==
    CASE kind = "ciphertext" -> [token EXCEPT !.body = Utf8Encode(JsonDumps("c1" :> ("d1" :> CredsB)))]
      [] kind = "signature"  -> [token EXCEPT !.mac_key = "forged"]
      [] kind = "not_json"   -> FernetEncrypt(token.cipher_key, Utf8Encode([format |-> "text", value |-> EmptyDict]))

VaultRest == UNCHANGED <<topoVars, storeVars, auditVars, diffVars, driverVars, inventory_devices, pending_creates, vault_records, sseVars>>

\* VaultManager().encrypt_payload(data)
EncryptPayloadCall ==
    /\ \E key \in MasterKeys, data \in VaultPayloads, dumps_raises \in BOOLEAN :
        \E out \in {EncryptPayload(vault_file, key, data, dumps_raises)} :
            /\ vault_file' = out.file
            /\ lastOp' = [op |-> "encrypt_payload", key |-> key, data |-> data, raised |-> out.raised]
    /\ VaultRest

\* The file is altered on disk.
TamperFile ==
    /\ vault_file.exists
    /\ \E kind \in TamperKinds :
        /\ vault_file' = [vault_file EXCEPT !.bytes = Tampered(@, kind)]
        /\ vault_file' # vault_file
        /\ lastOp' = [op |-> "tamper", kind |-> kind]
    /\ VaultRest

\* VaultManager().get_credentials(customer_id, device_id)
GetCredentialsCall ==
    /\ \E key \in MasterKeys, customer_id \in {"c1", "c2", "c9"}, device_id \in {"d1", "d3"} :
        \E out \in {GetCredentials(vault_file, key, customer_id, device_id)} :
            lastOp' = [op |-> "get_credentials", key |-> key, customer_id |-> customer_id, device_id |-> device_id, raised |-> out.raised, creds |-> out.creds]
    /\ UNCHANGED vault_file
    /\ VaultRest

VaultNext ==
    \/ EncryptPayloadCall
    \/ TamperFile
    \/ GetCredentialsCall

SpecVault == WebInit /\ [][VaultNext]_vars

\* ---------------------------------------------------------------------
\* Claims on the vault
\* ---------------------------------------------------------------------

\* The record of (customer, device) in a payload, NoCreds when absent.
RecordIn(data, customer_id, device_id) ==
    IF customer_id \in DOMAIN data /\ device_id \in DOMAIN data[customer_id] THEN data[customer_id][device_id] ELSE NoCreds

\* Right after encrypt_payload(v) under a key: the same key reads v back,
\* record by record, and every other key gets vault-corrupted.
C26_RoundTrip ==
    (lastOp'.op = "encrypt_payload" /\ lastOp'.raised = None) =>
        /\ DecryptVault(vault_file', lastOp'.key) = [raised |-> None, payload |-> lastOp'.data]
        /\ \A c \in {"c1", "c2"}, d \in {"d1", "d2", "d3"} :
            GetCredentials(vault_file', lastOp'.key, c, d).creds = RecordIn(lastOp'.data, c, d)
        /\ \A other \in MasterKeys \ {lastOp'.key} :
            DecryptVault(vault_file', other) = [raised |-> "VaultCorruptedError", payload |-> EmptyDict]

\* After the file was altered no key reads anything from it.
C26_Tamper ==
    lastOp'.op = "tamper" =>
        \A key \in MasterKeys : DecryptVault(vault_file', key) = [raised |-> "VaultCorruptedError", payload |-> EmptyDict]

\* A get_credentials that raises returns no record.
C26_Read ==
    lastOp'.op = "get_credentials" =>
        /\ lastOp'.raised # None => lastOp'.creds = NoCreds
        /\ vault_file' = vault_file

OPEN_INCIDENT_STATUSES == {"new", "em_analise"}

MaxRows == 2

\* What the status column of a row can hold: the default of the table,
\* the legacy spelling, and states written by the remediation workflow.
StatusValues == {"new", "novo", "em_analise", "validado"}

StatusRow(id, device_id, severity, status) ==
    [id |-> id, customer_id |-> "c1", device_id |-> device_id, severity |-> severity,
     category |-> "configuration_drift", payload |-> "p1", status |-> status]

\* The tables of up to MaxRows rows, ids in insertion order.
StatusTables ==
    UNION {{[i \in 1..n |-> StatusRow(i, t[i][1], t[i][2], t[i][3])] :
             t \in [1..n -> {"d1", "d2"} \X {"HIGH", "low"} \X StatusValues]} : n \in 0..MaxRows}

\* SQL UPPER() and LOWER(), str.strip().lower() on the texts that occur.
Upper(text) ==
    CASE text = "low" -> "LOW"
      [] text = "high" -> "HIGH"
      [] OTHER -> text

StripLower(text) ==
    CASE text \in {"New", " new "} -> "new"
      [] text \in {"NOVO", " novo"} -> "novo"
      [] OTHER -> text

STATUS_UI_MAP == [new |-> "novo", novo |-> "novo", em_analise |-> "em_analise", aprovado |-> "aprovado", executado |-> "executado", validado |-> "validado", falhou |-> "falhou", revertido |-> "revertido"]

\* normalize_status
NormalizeStatus(status) ==
    IF status \in {None, ""} THEN "novo"
    ELSE IF StripLower(status) \in DOMAIN STATUS_UI_MAP THEN STATUS_UI_MAP[StripLower(status)] ELSE StripLower(status)

\* status_filter_values
StatusFilterValues(status) ==
    IF NormalizeStatus(status) = "novo" THEN {"novo", "new"} ELSE {NormalizeStatus(status)}

\* The positions of the rows a WHERE status IN (...) keeps.
OpenRows(rows) == {i \in 1..Len(rows) : rows[i].status \in OPEN_INCIDENT_STATUSES}

\* count_open_by_severity: {UPPER(severity): COUNT(*)} over the open rows
CountOpenBySeverity(rows) ==
    [sev \in {Upper(rows[i].severity) : i \in OpenRows(rows)} |->
        Cardinality({i \in OpenRows(rows) : Upper(rows[i].severity) = sev})]

\* list_distinct_open_devices
ListDistinctOpenDevices(rows) == {rows[i].device_id : i \in OpenRows(rows)}

RECURSIVE NewestFirst(_, _)
\* ids of the kept rows, newest first (timestamps are assigned in
\* insertion order), at most limit of them.
NewestFirst(rows, limit) ==
    IF limit = 0 \/ OpenRows(rows) = {} THEN <<>>
    ELSE LET top == CHOOSE i \in OpenRows(rows) : \A j \in OpenRows(rows) : j <= i
         IN  <<rows[top].id>> \o NewestFirst(SubSeq(rows, 1, top - 1), limit - 1)

\* list_recent_open(limit)
ListRecentOpen(rows, limit) == NewestFirst(rows, limit)

\* list_incidents(status=...): ids of the rows the status condition keeps
\* (no other filter given); every row when status is empty.
ListIncidents(rows, status) ==
    IF status \in {None, ""}
    THEN {rows[i].id : i \in 1..Len(rows)}
    ELSE {rows[i].id : i \in {j \in 1..Len(rows) : StripLower(rows[j].status) \in StatusFilterValues(status)}}

StatusParams == {None, "new", "novo", "New", "NOVO", "em_analise", "validado"}

StatusInit ==
    /\ topology_nodes = <<>>
    /\ clock = 1
    /\ incidents \in StatusTables
    /\ incident_seq = Len(incidents)
    /\ lastOp = [op |-> "init"]
    /\ AuditIdle
    /\ DiffIdle
    /\ DriverIdle
    /\ inventory_devices = InventoryRows
    /\ WebIdle

QueryRest == UNCHANGED <<topoVars, storeVars, auditVars, diffVars, driverVars, inventory_devices, webVars>>

CountOpenBySeverityCall ==
    /\ lastOp' = [op |-> "count_open_by_severity", counts |-> CountOpenBySeverity(incidents)]
    /\ QueryRest

ListDistinctOpenDevicesCall ==
    /\ lastOp' = [op |-> "list_distinct_open_devices", devices |-> ListDistinctOpenDevices(incidents)]
    /\ QueryRest

ListRecentOpenCall ==
    /\ lastOp' = [op |-> "list_recent_open", ids |-> ListRecentOpen(incidents, 5)]
    /\ QueryRest

ListIncidentsCall ==
    /\ \E status \in StatusParams :
        lastOp' = [op |-> "list_incidents", status |-> status, ids |-> ListIncidents(incidents, status)]
    /\ QueryRest

StatusNext ==
    \/ CountOpenBySeverityCall
    \/ ListDistinctOpenDevicesCall
    \/ ListRecentOpenCall
    \/ ListIncidentsCall

SpecStatus == StatusInit /\ [][StatusNext]_vars

\* ---------------------------------------------------------------------
\* Claims on the dashboard queries
\* ---------------------------------------------------------------------

\* The positions of the rows whose status is 'new' or 'novo'.
NewOrNovo(rows) == {i \in 1..Len(rows) : rows[i].status \in {"new", "novo"}}

\* Each open-incident query counts every row of status 'new' or 'novo'.
C27_OpenQueries ==
    /\ lastOp.op = "count_open_by_severity" =>
        \A i \in NewOrNovo(incidents) :
            /\ Upper(incidents[i].severity) \in DOMAIN lastOp.counts
            /\ lastOp.counts[Upper(incidents[i].severity)] >=
                 Cardinality({j \in NewOrNovo(incidents) : Upper(incidents[j].severity) = Upper(incidents[i].severity)})
    /\ lastOp.op = "list_distinct_open_devices" =>
        \A i \in NewOrNovo(incidents) : incidents[i].device_id \in lastOp.devices
    /\ lastOp.op = "list_recent_open" =>
        \A i \in NewOrNovo(incidents) : \E k \in 1..Len(lastOp.ids) : lastOp.ids[k] = incidents[i].id

\* A list filtered by 'new' and one filtered by 'novo' hold the same
\* incidents, the rows of either status.
C27_ListFilter ==
    lastOp.op = "list_incidents" /\ lastOp.status \in {"new", "novo"} =>
        /\ lastOp.ids = ListIncidents(incidents, "new")
        /\ lastOp.ids = ListIncidents(incidents, "novo")
        /\ lastOp.ids = {incidents[i].id : i \in NewOrNovo(incidents)}

\* C27: the statuses 'new' and 'novo' are the same open state everywhere:
\* rows of either status are counted by every open-incident query (open
\* counts per severity, devices with open incidents, recent open
\* incidents), and filtering the incident list by 'new' or by 'novo'
\* selects the same incidents.
C27_NewAndNovoAreOpen == C27_OpenQueries /\ C27_ListFilter

\* ---------------------------------------------------------------------
\* collect_topology_from_driver: CLI first, SNMP as the fallback
\* ---------------------------------------------------------------------

Tables == {"arp", "mac", "lldp"}

\* What driver.get_arp_table / get_mac_table / get_lldp_neighbors can do:
\* return entries, return an empty list, or raise.
CliOutcomes(table) ==
    {[raised |-> None, entries |-> <<"cli", table>>],
     [raised |-> None, entries |-> <<>>],
     [raised |-> "NotImplementedError", entries |-> <<>>],
     [raised |-> "Exception", entries |-> <<>>]}

\* What collect_arp_via_snmp / collect_mac_via_snmp / collect_lldp_via_snmp
\* can do once called.
SnmpOutcomes(table) ==
    {[raised |-> None, entries |-> <<"snmp", table>>],
     [raised |-> None, entries |-> <<>>],
     [raised |-> "Exception", entries |-> <<>>]}

Communities == {None, "", "public"}

\* The fallback of one table with the exception of the walk let through.
CollectTableSnmpUncaught(cli, snmp, snmp_community) ==
    LET first == IF cli.raised = None THEN cli.entries ELSE <<>>
    IN  IF first = <<>> /\ snmp_community \notin {None, ""}
        THEN [entries |-> snmp.entries, walked |-> TRUE, raised |-> snmp.raised]
        ELSE [entries |-> first, walked |-> FALSE, raised |-> None]

\* One table: result[t] = CLI entries unless the call raised (both kinds of
\* exception are caught); then, if result[t] is empty and a community was
\* given, the SNMP walk, whose exception is caught and leaves result[t].
CollectTable(cli, snmp, snmp_community) ==
    LET first == IF cli.raised = None THEN cli.entries ELSE <<>>
    IN  IF first = <<>> /\ snmp_community \notin {None, ""}
        THEN [entries |-> IF snmp.raised = None THEN snmp.entries ELSE first, walked |-> TRUE, raised |-> None]
        ELSE [entries |-> first, walked |-> FALSE, raised |-> None]

\* collect_topology_from_driver: ARP, then MAC, then LLDP; an exception
\* that leaves a table's block ends the call and nothing is returned.
CollectTopologyFromDriver(cli, snmp, snmp_community) ==
    LET arp  == CollectTable(cli.arp, snmp.arp, snmp_community)
        mac  == CollectTable(cli.mac, snmp.mac, snmp_community)
        lldp == CollectTable(cli.lldp, snmp.lldp, snmp_community)
        Empty == [entries |-> <<>>, walked |-> FALSE, raised |-> None]
    IN  IF arp.raised # None
        THEN [raised |-> arp.raised, arp |-> arp, mac |-> Empty, lldp |-> Empty]
        ELSE IF mac.raised # None
        THEN [raised |-> mac.raised, arp |-> arp, mac |-> mac, lldp |-> Empty]
        ELSE [raised |-> lldp.raised, arp |-> arp, mac |-> mac, lldp |-> lldp]

\* A driver whose three calls, and a host whose three walks, behave in one
\* of the ways above, and the community the caller found for the device.
CollectInputs ==
    [op : {"open_driver"},
     cli : [arp : CliOutcomes("arp"), mac : CliOutcomes("mac"), lldp : CliOutcomes("lldp")],
     snmp : [arp : SnmpOutcomes("arp"), mac : SnmpOutcomes("mac"), lldp : SnmpOutcomes("lldp")],
     snmp_community : Communities]

CollectInit ==
    /\ topology_nodes = <<>>
    /\ clock = 1
    /\ incidents = <<>>
    /\ incident_seq = 0
    /\ lastOp \in CollectInputs
    /\ AuditIdle
    /\ DiffIdle
    /\ DriverIdle
    /\ inventory_devices = InventoryRows
    /\ WebIdle

\* collect_topology_from_driver(customer_id, device_id, driver, snmp_community)
CollectTopologyFromDriverCall ==
    /\ lastOp.op = "open_driver"
    /\ lastOp' = [op |-> "collect_topology_from_driver", cli |-> lastOp.cli, snmp |-> lastOp.snmp,
                   snmp_community |-> lastOp.snmp_community,
                   out |-> CollectTopologyFromDriver(lastOp.cli, lastOp.snmp, lastOp.snmp_community)]
    /\ QueryRest

CollectNext == CollectTopologyFromDriverCall

SpecCollect == CollectInit /\ [][CollectNext]_vars

\* ---------------------------------------------------------------------
\* Claims on the collection
\* ---------------------------------------------------------------------

\* The CLI call of the table gave nothing: empty, unsupported or raised.
CliGaveNothing(cli) == cli.raised # None \/ cli.entries = <<>>

\* C28: for each of ARP, MAC and LLDP independently, the SNMP walk is
\* attempted exactly when the CLI call returned an empty result, is
\* unsupported or raised, and a community is available; a non-empty CLI
\* result is never replaced by SNMP data; with no community no walk is
\* attempted; and a failing CLI or SNMP call for one table never prevents
\* collecting the others: the call returns, and each table holds what its
\* own CLI call or walk gave.
C28_FallbackPerTable ==
    lastOp.op = "collect_topology_from_driver" =>
        /\ lastOp.out.raised = None
        /\ \A t \in Tables :
            /\ lastOp.out[t].walked <=> (CliGaveNothing(lastOp.cli[t]) /\ lastOp.snmp_community \notin {None, ""})
            /\ ~CliGaveNothing(lastOp.cli[t]) => lastOp.out[t].entries = lastOp.cli[t].entries
            /\ (lastOp.out[t].walked /\ lastOp.snmp[t].raised = None) => lastOp.out[t].entries = lastOp.snmp[t].entries
            /\ (lastOp.out[t].walked /\ lastOp.snmp[t].raised # None) => lastOp.out[t].entries = <<>>
            /\ (CliGaveNothing(lastOp.cli[t]) /\ ~lastOp.out[t].walked) => lastOp.out[t].entries = <<>>

\* The ARP call raises and its walk raises too, the MAC call is
\* unsupported and its walk answers, the LLDP call answers.
C28_Witness ==
    /\ lastOp.op = "collect_topology_from_driver"
    /\ lastOp.snmp_community = "public"
    /\ lastOp.cli.arp.raised = "Exception"
    /\ lastOp.snmp.arp.raised = "Exception"
    /\ lastOp.cli.mac.raised = "NotImplementedError"
    /\ lastOp.out.arp.entries = <<>>
    /\ lastOp.out.mac.entries = <<"snmp", "mac">>
    /\ lastOp.out.lldp.entries = <<"cli", "lldp">>

\* ---------------------------------------------------------------------
\* correlate_l2_l3 on arbitrary ARP and MAC tables
\* ---------------------------------------------------------------------

MaxEntries == 2

CorrelateMacs == {"AA:BB:CC:00:11:22", "AA:BB:CC:00:11:33"}

\* ARPEntry and MACEntry values: vlan_id is None (NullInt) or in 1..4094.
ArpEntryValues ==
    [ip_address : {"10.0.0.5", "10.0.0.6"}, mac_address : CorrelateMacs, interface : {"ether1"}, vlan_id : {NullInt, 10}]

MacEntryValues ==
    [mac_address : CorrelateMacs, interface : {"ether3"}, vlan_id : {NullInt, 20}, switch_port : {None, "ether3"}, is_local : {FALSE}]

ListsOf(values) == UNION {[1..n -> values] : n \in 0..MaxEntries}

CorrelateInputs ==
    [op : {"collected"}, arp_entries : ListsOf(ArpEntryValues), mac_entries : ListsOf(MacEntryValues)]

CorrelateInit ==
    /\ topology_nodes = <<>>
    /\ clock = 1
    /\ incidents = <<>>
    /\ incident_seq = 0
    /\ lastOp \in CorrelateInputs
    /\ AuditIdle
    /\ DiffIdle
    /\ DriverIdle
    /\ inventory_devices = InventoryRows
    /\ WebIdle

\* correlate_l2_l3(arp_entries, mac_entries)
CorrelateL2L3Call ==
    /\ lastOp.op = "collected"
    /\ lastOp' = [op |-> "correlate_l2_l3", arp_entries |-> lastOp.arp_entries, mac_entries |-> lastOp.mac_entries,
                  nodes |-> CorrelateL2L3(lastOp.arp_entries, lastOp.mac_entries)]
    /\ QueryRest

CorrelateNext == CorrelateL2L3Call

SpecCorrelate == CorrelateInit /\ [][CorrelateNext]_vars

\* ---------------------------------------------------------------------
\* Claims on the correlation
\* ---------------------------------------------------------------------

\* The entries of a table that carry the MAC.
EntriesOf(entries, mac) == {entries[i] : i \in {j \in DOMAIN entries : entries[j].mac_address = mac}}

\* The node of one MAC against the two tables.
C29_Node(node, arps, macs) ==
    /\ arps # {} => \E a \in arps : node.ip_address = a.ip_address
    /\ arps = {} => node.ip_address = None
    /\ macs # {} => \E e \in macs : node.switch_port = e.switch_port
    /\ macs = {} => node.switch_port = None
    /\ (macs # {} /\ \A e \in macs : e.vlan_id # NullInt) => \E e \in macs : node.vlan_id = e.vlan_id
    /\ ((\A e \in macs : e.vlan_id = NullInt) /\ arps # {}) => \E a \in arps : node.vlan_id = a.vlan_id
    /\ ((\A e \in macs : e.vlan_id = NullInt) /\ arps = {}) => node.vlan_id = NullInt

\* C29: correlate_l2_l3 returns exactly one NetworkNode per distinct MAC
\* found in the ARP list or the MAC list; the node's ip comes from the ARP
\* entry, its vlan_id from the MAC entry when that entry has one and
\* otherwise from the ARP entry, its switch_port from the MAC entry; a MAC
\* present in only one table still yields a node, the other fields empty.
C29_OneNodePerMac ==
    lastOp.op = "correlate_l2_l3" =>
        LET all_macs == MacsOf(lastOp.arp_entries) \cup MacsOf(lastOp.mac_entries)
        IN  /\ Len(lastOp.nodes) = Cardinality(all_macs)
            /\ {lastOp.nodes[i].mac_address : i \in DOMAIN lastOp.nodes} = all_macs
            /\ \A i \in DOMAIN lastOp.nodes :
                C29_Node(lastOp.nodes[i],
                         EntriesOf(lastOp.arp_entries, lastOp.nodes[i].mac_address),
                         EntriesOf(lastOp.mac_entries, lastOp.nodes[i].mac_address))

\* Two nodes: one MAC in both tables with a VLAN on each side, the other
\* MAC only in the MAC table.
C29_Witness ==
    /\ lastOp.op = "correlate_l2_l3"
    /\ Len(lastOp.nodes) = 2
    /\ \E i \in DOMAIN lastOp.nodes :
        /\ lastOp.nodes[i].vlan_id = 20
        /\ lastOp.nodes[i].ip_address = "10.0.0.5"
        /\ \E a \in EntriesOf(lastOp.arp_entries, lastOp.nodes[i].mac_address) : a.vlan_id = 10
    /\ \E i \in DOMAIN lastOp.nodes :
        /\ lastOp.nodes[i].ip_address = None
        /\ lastOp.nodes[i].switch_port = "ether3"

\* ---------------------------------------------------------------------
\* Claims on the incidents of audit_device
\* ---------------------------------------------------------------------

\* The audit just made found a baseline it could load and a diff with drift.
DriftAgainstBaseline(op) ==
    /\ op.file_before.exists
    /\ ValidatesAsDeviceConfig(op.file_before.content)
    /\ HasDrift(CompareDefault(ModelValidateJson(op.file_before.content), op.live_config))

\* C30: audit_device pushes at most one incident per call and attempts the
\* push exactly when a baseline exists and the diff has drift: no incident
\* when the device is compliant or the initial baseline was just created;
\* the pushed incident has category configuration_drift and a severity
\* label among LOW, MEDIUM, HIGH, CRITICAL, never COMPLIANT; a call whose
\* push failed still reports has_drift = true, with no incident id.
C30_AtMostOneDriftIncident ==
    lastOp.op = "audit_device" =>
        LET before == lastOp.incidents_before
            added  == Len(incidents) - Len(before)
        IN  /\ added \in {0, 1}
            /\ SubSeq(incidents, 1, Len(before)) = before
            /\ auditResult.has_drift <=> DriftAgainstBaseline(lastOp)
            /\ ~DriftAgainstBaseline(lastOp) => (added = 0 /\ auditResult.incident_id = NullInt)
            /\ added = 1 =>
                /\ DriftAgainstBaseline(lastOp)
                /\ incidents[Len(incidents)].category = "configuration_drift"
                /\ incidents[Len(incidents)].severity \in {"LOW", "MEDIUM", "HIGH", "CRITICAL"}
                /\ incidents[Len(incidents)].severity = auditResult.severity
                /\ incidents[Len(incidents)].device_id = lastOp.device_id
                /\ auditResult.incident_id = incidents[Len(incidents)].id
            /\ (DriftAgainstBaseline(lastOp) /\ added = 0) =>
                (auditResult.has_drift /\ auditResult.incident_id = NullInt)

\* An audit with drift whose push failed, after one whose push was stored.
C30_Witness ==
    /\ lastOp.op = "audit_device"
    /\ DriftAgainstBaseline(lastOp)
    /\ Len(incidents) = 1
    /\ lastOp.incidents_before = incidents
    /\ auditResult.has_drift
    /\ auditResult.incident_id = NullInt

====
